---- MODULE Spec2Model ----
(***************************************************************************)
(* Model of the shrink / inflate machinery of pyrit's NodalShapeFunction   *)
(* (pyrit/shapefunction/NodalShapeFunction.py).                            *)
(*                                                                         *)
(* Vectors are sequences of integers, matrices are sequences of rows.      *)
(* Python indices are 0-based: entry i of a Python array is entry i + 1 of *)
(* the sequence, while the node numbers stored in index arrays keep their  *)
(* 0-based values.                                                         *)
(***************************************************************************)
EXTENDS Integers, Sequences, FiniteSets, TLC

(***************************************************************************)
(* Bounds of the model.                                                    *)
(***************************************************************************)
\* number of mesh nodes = size N of the assembled system
NumNodes == 4
\* largest number of boundary conditions of a problem
MaxBC == 3

\* largest number of calls of Problem.save in a run
MaxSaves == 1

\* largest number of regions of a problem that is checked
MaxRegions == 2

\* largest number of time steps of a transient problem
MaxTimeSteps == 4

\* largest number of monitors handed to _monitors_preprocessing
MaxMonitors == 2

\* largest integer step of a monitor
MaxStep == 3

\* largest absolute value of a frequency handed to a harmonic problem
MaxFrequency == 3

\* largest number of constructor and setter calls on harmonic problems
MaxCalls == 4

VARIABLES
    boundary_conditions, \* the problem's boundary conditions, in iteration order
    matrix_in,           \* the matrix handed to shrink
    rhs_in,              \* the right-hand side handed to shrink
    pc,                  \* position of the shrink / inflate cycle
    matrix,              \* local variable matrix of shrink
    rhs,                 \* local variable rhs of shrink
    steps,               \* the shrink steps invoked so far, in order
    num_lagrange_mul_binary,
    num_lagrange_mul_floating,
    ind_on_dir,
    ind_not_on_dir,
    val_on_dir,
    error,               \* the exception that ended the call, or "none"
    shrink_out,          \* what shrink returned
    csd_out,             \* what a direct call of compute_support_data returned
    solution,            \* the reduced solution handed to inflate
    sd_mode,             \* which support data inflate was given
    inflate_out,         \* what inflate returned
    inflate_base,        \* the array whose memory the vector inflate returned uses
    written              \* the arrays and matrices written in place so far

VARIABLES
    flag_pypardiso,      \* whether the import of pypardiso succeeded
    solver,              \* the solver argument of solve_linear_system
    rhs_type,            \* the type of its rhs argument
    is_complex,          \* whether its matrix or rhs is complex
    invoked,             \* the solver it handed the system to, or "none"
    solve_out,           \* what it returned
    solve_error          \* the exception that ended it, or "none"

VARIABLES
    problem_attrs,       \* the instance attributes of the problem object
    files,               \* the content of every file of the file system
    dirs,                \* the directories that exist
    saves,               \* the number of calls of Problem.save
    save_arg,            \* the path and ignore_attributes of the last save
    save_before,         \* the instance attributes when it was called
    save_out,            \* the path it returned
    save_error,          \* the exception that ended it, or "none"
    load_arg,            \* the path argument of the last Problem.load
    load_file,           \* the file it resolved
    load_out,            \* the instance attributes of the problem it returned
    load_error           \* the exception that ended it, or "none"

VARIABLES
    regions,             \* the regions of the problem, each with its references
    containers,          \* the IDs that materials, boundary_conditions, excitations hold
    check_pos,           \* the position of the loop of consistency_check
    warnings,            \* the warnings logged so far
    check_error          \* the exception that ended consistency_check, or "none"

VARIABLES
    time_steps,          \* len(self.time_steps) of the transient problem
    available_monitors,  \* the class attribute available_monitors
    monitors,            \* the argument of the last _monitors_preprocessing
    internal_monitors,   \* what it returned
    monitors_error       \* the exception that ended it, or "none"

VARIABLES
    frequency,           \* the attribute _frequency of the harmonic problem
    frequency_arg,       \* the last frequency handed to the constructor or the setter
    frequency_before,    \* _frequency before that call
    frequency_error,     \* the exception that ended that call, or "none"
    frequency_calls      \* the number of calls

vars == <<boundary_conditions, matrix_in, rhs_in, pc, matrix, rhs, steps,
          num_lagrange_mul_binary, num_lagrange_mul_floating, ind_on_dir,
          ind_not_on_dir, val_on_dir, error, shrink_out, csd_out, solution,
          sd_mode, inflate_out, inflate_base, written,
          flag_pypardiso, solver, rhs_type, is_complex, invoked, solve_out,
          solve_error,
          problem_attrs, files, dirs, saves, save_arg, save_before, save_out,
          save_error, load_arg, load_file, load_out, load_error,
          regions, containers, check_pos, warnings, check_error,
          time_steps, available_monitors, monitors, internal_monitors,
          monitors_error,
          frequency, frequency_arg, frequency_before, frequency_error,
          frequency_calls>>

\* Python's None, and a value that is not None
None == <<>>

Some(x) == <<x>>

\* an entry of an np.empty array that was never written
Uninitialized == 0 - 1

(***************************************************************************)
(* Generic helpers: numpy / scipy primitives used by the code.             *)
(***************************************************************************)
Range(s) == {s[i] : i \in DOMAIN s}

Max(S) == CHOOSE x \in S : \A y \in S : y <= x

\* np.unique / np.setdiff1d / np.intersect1d return sorted arrays
RECURSIVE SortedSeq(_)
SortedSeq(S) ==
    IF S = {} THEN <<>>
    ELSE LET m == CHOOSE x \in S : \A y \in S : x <= y
         IN  <<m>> \o SortedSeq(S \ {m})

\* np.concatenate of a list of arrays
RECURSIVE Concatenate(_)
Concatenate(list) ==
    IF list = <<>> THEN <<>> ELSE Head(list) \o Concatenate(Tail(list))

\* np.arange(n)
Arange(n) == [i \in 1..n |-> i - 1]

\* a[idx] for an index array idx
Take(a, idx) == [j \in 1..Len(idx) |-> a[idx[j] + 1]]

RECURSIVE SumSeq(_)
SumSeq(s) == IF s = <<>> THEN 0 ELSE Head(s) + SumSeq(Tail(s))

VecAdd(a, b) == [i \in 1..Len(a) |-> a[i] + b[i]]

MatAdd(a, b) == [i \in 1..Len(a) |-> [j \in 1..Len(a[i]) |-> a[i][j] + b[i][j]]]

Zeros(n) == [i \in 1..n |-> 0]

\* a Python slice a[:stop], stop possibly negative
SliceTo(a, stop) ==
    LET n == Len(a)
        s == IF stop >= 0 THEN (IF stop > n THEN n ELSE stop)
             ELSE (IF n + stop < 0 THEN 0 ELSE n + stop)
    IN  SubSeq(a, 1, s)

(***************************************************************************)
(* The mesh and the regions: two elements on the nodes 0..3 (further      *)
(* nodes, if any, are isolated).  Region 0 means "no region".  Element 1   *)
(* carries the region 5 of dimension 3, as the elements of a mesh of       *)
(* volume elements do, element 2 the region 4 of dimension 2.              *)
(***************************************************************************)
Nodes == 0..(NumNodes - 1)

node2regi == [n \in Nodes |-> IF n = 0 THEN 1 ELSE 0]

edge2node == << <<0, 1>>, <<1, 3>>, <<3, 2>>, <<2, 0>>, <<1, 2>> >>

edge2regi == <<2, 3, 3, 0, 0>>

elem2node == << <<0, 1, 2>>, <<1, 3, 2>> >>

elem2regi == <<5, 4>>

\* regions.get_regi(regi).dim
RegiDim(regi) == <<0, 1, 1, 2, 3>>[regi]

Regions == 1..5

(***************************************************************************)
(* Boundary conditions.  A condition is a record                           *)
(*   kind           "neumann", "robin", "binary", "floating", "dirichlet"  *)
(*   regs           the regions that carry the condition                   *)
(*   vkind          what bc.value is: "scalar", "array", "time" (callable, *)
(*                  time dependent), "other" (callable, not time           *)
(*                  dependent), "unsupported" (none of these), "na"        *)
(*   value          the scalar, or what the callable returns               *)
(*   array          the per-node value array                               *)
(*   primary_nodes, replica_nodes   the node pairs of a binary condition   *)
(* Its ID is its position in boundary_conditions.                          *)
(***************************************************************************)
Kinds == <<"neumann", "robin", "binary", "floating", "dirichlet">>

\* BdryCond.dict_of_boundary_condition(): kind -> IDs of that kind, in order
DictOfBoundaryCondition(bcs) ==
    [k \in Range(Kinds) |->
        SelectSeq([i \in 1..Len(bcs) |-> i], LAMBDA i : bcs[i].kind = k)]

\* BdryCond.regions_of_bc(regions): ID -> regions that carry the condition
RegionsOfBC(bcs) == [i \in 1..Len(bcs) |-> bcs[i].regs]

\* BoundaryCondition.is_constant / is_time_dependent
IsConstant(bc) == bc.vkind \in {"scalar", "array", "unsupported"}

IsTimeDependent(bc) == bc.vkind = "time"

(***************************************************************************)
(* Node resolution.                                                        *)
(***************************************************************************)
\* np.unique(msh.edge2node[np.where(msh.edge2regi == regi)[0], :])
EdgeNodesOfRegi(regi) ==
    UNION {Range(edge2node[e]) : e \in {x \in DOMAIN edge2regi : edge2regi[x] = regi}}

\* np.unique(msh.elem2node[np.where(msh.elem2regi == regi)[0], :])
ElemNodesOfRegi(regi) ==
    UNION {Range(elem2node[e]) : e \in {x \in DOMAIN elem2regi : elem2regi[x] = regi}}

\* np.where(msh.node2regi == regi)[0]
TaggedNodesOfRegi(regi) == {n \in Nodes : node2regi[n] = regi}

\* the regions of a Dirichlet condition for which an array is appended to
\* indices_nodes_list
DirichletRegiHandled(regi) == RegiDim(regi) \in {0, 1, 2}

\* the array appended for one region of a Dirichlet condition
DirichletNodesOfRegi(regi) ==
    IF RegiDim(regi) = 0 THEN TaggedNodesOfRegi(regi)
    ELSE IF RegiDim(regi) = 1 THEN EdgeNodesOfRegi(regi)
    ELSE IF RegiDim(regi) = 2 THEN ElemNodesOfRegi(regi)
    ELSE {}

\* the regions of a floating condition for which an array is appended
FloatingRegiHandled(regi) == RegiDim(regi) \in {1, 2}

\* the array appended for one region of a floating condition: the edges
\* tagged with the region, for dimension 1 and for dimension 2
FloatingNodesOfRegi(regi) ==
    IF RegiDim(regi) = 1 THEN EdgeNodesOfRegi(regi)
    ELSE IF RegiDim(regi) = 2 THEN EdgeNodesOfRegi(regi)
    ELSE {}

(***************************************************************************)
(* _calc_values_for_dirichlet                                              *)
(***************************************************************************)
\* indices_nodes of one key: the sorted union of the arrays of its regions
DirichletNodesOfKey(bc) ==
    SortedSeq(UNION {DirichletNodesOfRegi(r) :
                     r \in {x \in bc.regs : DirichletRegiHandled(x)}})

\* a variant without the size check: the array is cut or filled with zeros
\* to the number of nodes
DirichletValuesOfKeyResized(bc, indices_nodes) ==
    IF bc.vkind = "array"
    THEN [err |-> "none", idx |-> indices_nodes,
          val |-> [j \in 1..Len(indices_nodes) |->
                      IF j <= Len(bc.array) THEN bc.array[j] ELSE 0]]
    ELSE IF bc.vkind \in {"scalar", "time"}
    THEN [err |-> "none", idx |-> indices_nodes,
          val |-> [j \in 1..Len(indices_nodes) |-> bc.value]]
    ELSE IF bc.vkind = "unsupported"
    THEN [err |-> "TypeNotSupported", idx |-> <<>>, val |-> <<>>]
    ELSE [err |-> "NotImplementedError", idx |-> <<>>, val |-> <<>>]

\* a variant without the final else branch: a constant value of another type
\* is taken like a scalar
DirichletValuesOfKeyLenient(bc, indices_nodes) ==
    IF bc.vkind = "array"
    THEN IF Len(bc.array) # Len(indices_nodes)
         THEN [err |-> "DimensionsDontMatch", idx |-> <<>>, val |-> <<>>]
         ELSE [err |-> "none", idx |-> indices_nodes, val |-> bc.array]
    ELSE IF bc.vkind \in {"scalar", "time", "unsupported"}
    THEN [err |-> "none", idx |-> indices_nodes,
          val |-> [j \in 1..Len(indices_nodes) |-> bc.value]]
    ELSE [err |-> "NotImplementedError", idx |-> <<>>, val |-> <<>>]

\* the value array of one key for its node array indices_nodes, or the
\* exception raised
DirichletValuesOfKey(bc, indices_nodes) ==
    IF IsConstant(bc)
    THEN IF bc.vkind = "array"
         THEN IF Len(bc.array) # Len(indices_nodes)
              THEN [err |-> "DimensionsDontMatch", idx |-> <<>>, val |-> <<>>]
              ELSE [err |-> "none", idx |-> indices_nodes, val |-> bc.array]
         ELSE IF bc.vkind = "scalar"
         THEN [err |-> "none", idx |-> indices_nodes,
               val |-> [j \in 1..Len(indices_nodes) |-> bc.value]]
         ELSE [err |-> "TypeNotSupported", idx |-> <<>>, val |-> <<>>]
    ELSE IF IsTimeDependent(bc)
    THEN [err |-> "none", idx |-> indices_nodes,
          val |-> [j \in 1..Len(indices_nodes) |-> bc.value]]
    ELSE [err |-> "NotImplementedError", idx |-> <<>>, val |-> <<>>]

\* the loop body for one key: np.concatenate fails on an empty list
DirichletOfKey(bc) ==
    IF \A r \in bc.regs : ~DirichletRegiHandled(r)
    THEN [err |-> "ConcatenateError", idx |-> <<>>, val |-> <<>>]
    ELSE DirichletValuesOfKey(bc, DirichletNodesOfKey(bc))

\* a variant of indices_keep that cuts nothing
IndicesKeepAll(indices_tmp, indices_k) == Arange(Len(indices_k))

\* indices_keep for condition k: the positions of indices_all_nodes[k] that
\* are not cut, given indices_tmp (the nodes of the conditions before k)
IndicesKeep(indices_tmp, indices_k) ==
    LET intersection == Range(indices_tmp) \cap Range(indices_k)
        \* np.where(indices_all_nodes[k] == m)[0][0]
        where(m) == (CHOOSE j \in 1..Len(indices_k) :
                        /\ indices_k[j] = m
                        /\ \A i \in 1..(j - 1) : indices_k[i] # m) - 1
        indices_cut == {where(m) : m \in intersection}
    IN  SortedSeq(Range(Arange(Len(indices_k))) \ indices_cut)

\* a variant of the loop that cuts a condition against the condition before
\* it only, not against all earlier ones
RECURSIVE ResolveIntersectionsPrevious(_, _, _)
ResolveIntersectionsPrevious(indices_all_nodes, values_all_nodes, k) ==
    IF k > Len(indices_all_nodes)
    THEN [err |-> "none", idx |-> indices_all_nodes, val |-> values_all_nodes]
    ELSE ResolveIntersectionsPrevious(
             [indices_all_nodes EXCEPT ![k] = Take(@,
                 IndicesKeep(indices_all_nodes[k - 1], @))],
             [values_all_nodes EXCEPT ![k] = Take(@,
                 IndicesKeep(indices_all_nodes[k - 1], indices_all_nodes[k]))],
             k + 1)

\* a variant of the loop that cuts the index array of a condition at
\* indices_keep and its value array at the end
RECURSIVE ResolveIntersectionsCutsTail(_, _, _)
ResolveIntersectionsCutsTail(indices_all_nodes, values_all_nodes, k) ==
    IF k > Len(indices_all_nodes)
    THEN [err |-> "none", idx |-> indices_all_nodes, val |-> values_all_nodes]
    ELSE ResolveIntersectionsCutsTail(
             [indices_all_nodes EXCEPT ![k] = Take(@,
                 IndicesKeep(Concatenate(SubSeq(indices_all_nodes, 1, k - 1)), @))],
             [values_all_nodes EXCEPT ![k] = SubSeq(@, 1,
                 Len(IndicesKeep(Concatenate(SubSeq(indices_all_nodes, 1, k - 1)),
                                 indices_all_nodes[k])))],
             k + 1)

\* the loop "when Dirichlet boundary conditions intersect each other", from k on
RECURSIVE ResolveIntersections(_, _, _)
ResolveIntersections(indices_all_nodes, values_all_nodes, k) ==
    IF k > Len(indices_all_nodes)
    THEN [err |-> "none", idx |-> indices_all_nodes, val |-> values_all_nodes]
    ELSE ResolveIntersections(
             [indices_all_nodes EXCEPT ![k] = Take(@,
                 IndicesKeep(Concatenate(SubSeq(indices_all_nodes, 1, k - 1)), @))],
             [values_all_nodes EXCEPT ![k] = Take(@,
                 IndicesKeep(Concatenate(SubSeq(indices_all_nodes, 1, k - 1)),
                             indices_all_nodes[k]))],
             k + 1)

\* the first exception of the loop over the keys (one[k] is the outcome of
\* key k), or the resolved lists
FirstErrorOrResolve(one) ==
    IF \E k \in DOMAIN one : one[k].err # "none"
    THEN [err |-> one[CHOOSE k \in DOMAIN one :
                         /\ one[k].err # "none"
                         /\ \A j \in 1..(k - 1) : one[j].err = "none"].err,
          idx |-> <<>>, val |-> <<>>]
    ELSE ResolveIntersections([k \in DOMAIN one |-> one[k].idx],
                              [k \in DOMAIN one |-> one[k].val], 2)

\* _calc_values_for_dirichlet(boundary_conditions, keys, ...)
CalcValuesForDirichlet(bcs, keys) ==
    IF keys = <<>>
    THEN \* indices_all_nodes[0] of an empty list
         [err |-> "IndexError", idx |-> <<>>, val |-> <<>>]
    ELSE FirstErrorOrResolve([k \in 1..Len(keys) |-> DirichletOfKey(bcs[keys[k]])])

(***************************************************************************)
(* _calc_values_for_binary                                                 *)
(***************************************************************************)
\* a variant of lines_previous that is never advanced
LinesPreviousZero(bcs, keys, k) == 0

\* lines_previous before the condition at position k of keys
RECURSIVE LinesPrevious(_, _, _)
LinesPrevious(bcs, keys, k) ==
    IF k <= 1 THEN 0
    ELSE LinesPrevious(bcs, keys, k - 1) + Len(bcs[keys[k - 1]].primary_nodes)

\* the arrays appended for the condition at position k: those of its primary
\* nodes (h = 1) and those of its replica nodes (h = 2)
BinaryArrays(bc, lines_previous, h) ==
    IF h = 1
    THEN [lines   |-> [j \in 1..Len(bc.primary_nodes) |-> j - 1 + lines_previous],
          columns |-> bc.primary_nodes,
          values  |-> [j \in 1..Len(bc.primary_nodes) |-> -bc.value]]
    ELSE [lines   |-> [j \in 1..Len(bc.replica_nodes) |-> j - 1 + lines_previous],
          columns |-> bc.replica_nodes,
          values  |-> [j \in 1..Len(bc.replica_nodes) |-> 1]]

\* entry i of the lists: the conditions append two arrays each
BinaryArraysAt(bcs, keys, i) ==
    BinaryArrays(bcs[keys[(i + 1) \div 2]], LinesPrevious(bcs, keys, (i + 1) \div 2),
                 2 - (i % 2))

\* _calc_values_for_binary: the lists lines, columns, values
CalcValuesForBinary(bcs, keys) ==
    [lines   |-> [i \in 1..(2 * Len(keys)) |-> BinaryArraysAt(bcs, keys, i).lines],
     columns |-> [i \in 1..(2 * Len(keys)) |-> BinaryArraysAt(bcs, keys, i).columns],
     values  |-> [i \in 1..(2 * Len(keys)) |-> BinaryArraysAt(bcs, keys, i).values]]

(***************************************************************************)
(* _calc_values_for_floating                                               *)
(***************************************************************************)
\* the loop body for one key: the node array of the condition, or the
\* exception of np.concatenate on an empty list
FloatingOfKey(bc) ==
    IF \A r \in bc.regs : ~FloatingRegiHandled(r)
    THEN [err |-> "ConcatenateError", idx |-> <<>>]
    ELSE [err |-> "none",
          idx |-> SortedSeq(UNION {FloatingNodesOfRegi(r) :
                                   r \in {x \in bc.regs : FloatingRegiHandled(x)}})]

\* the first exception of the loop over the keys, or the list of node arrays
FloatingAll(one) ==
    IF \E k \in DOMAIN one : one[k].err # "none"
    THEN [err |-> "ConcatenateError", idx |-> <<>>]
    ELSE [err |-> "none", idx |-> [k \in DOMAIN one |-> one[k].idx]]

\* _calc_values_for_floating(keys, msh, regions, regions_of_bc)
CalcValuesForFloating(bcs, keys) ==
    FloatingAll([k \in 1..Len(keys) |-> FloatingOfKey(bcs[keys[k]])])

(***************************************************************************)
(* The boundary terms of the concrete shape function (abstract methods     *)
(* neumann_term and robin_terms): a load vector q and a matrix S of the    *)
(* size of the mesh.                                                       *)
(***************************************************************************)
NodesOfKind(bcs, kind) ==
    UNION {EdgeNodesOfRegi(r) :
           r \in UNION {bcs[i].regs : i \in {x \in 1..Len(bcs) : bcs[x].kind = kind}}}

NeumannTerm(bcs) ==
    [i \in 1..NumNodes |-> IF (i - 1) \in NodesOfKind(bcs, "neumann") THEN 1 ELSE 0]

RobinTerms(bcs) ==
    [S |-> [i \in 1..NumNodes |-> [j \in 1..NumNodes |->
                IF i = j /\ (i - 1) \in NodesOfKind(bcs, "robin") THEN 2 ELSE 0]],
     q |-> [i \in 1..NumNodes |-> IF (i - 1) \in NodesOfKind(bcs, "robin") THEN 3 ELSE 0]]

(***************************************************************************)
(* The shrink methods.  Each returns a record with err = "none" and the    *)
(* returned values, or with the exception raised.                          *)
(***************************************************************************)
\* shrink_neumann
ShrinkNeumann(rhs0, bcs) == VecAdd(rhs0, NeumannTerm(bcs))

\* a variant of shrink_robin that leaves the matrix as it is
ShrinkRobinKeepsMatrix(matrix0, rhs0, bcs) ==
    [matrix |-> matrix0,
     rhs    |-> VecAdd(rhs0, RobinTerms(bcs).q)]

\* shrink_robin
ShrinkRobin(matrix0, rhs0, bcs) ==
    [matrix |-> MatAdd(matrix0, RobinTerms(bcs).S),
     rhs    |-> VecAdd(rhs0, RobinTerms(bcs).q)]

\* a variant of the augmentation that leaves the block to the right zero
SymmetricAugmentBelowOnly(matrix0, b_matrix) ==
    [i \in 1..(Len(matrix0) + Len(b_matrix)) |->
        [j \in 1..(Len(matrix0) + Len(b_matrix)) |->
            IF i <= Len(matrix0) /\ j <= Len(matrix0) THEN matrix0[i][j]
            ELSE IF i > Len(matrix0) /\ j <= Len(matrix0) THEN b_matrix[i - Len(matrix0)][j]
            ELSE 0]]

\* hstack((vstack((matrix, B)), vstack((B.transpose(), 0)))), and
\* bmat([[matrix, B.transpose()], [B, None]]): B has as many columns as matrix
SymmetricAugment(matrix0, b_matrix) ==
    LET n == Len(matrix0)
        l == Len(b_matrix)
    IN  [i \in 1..(n + l) |-> [j \in 1..(n + l) |->
            IF i <= n /\ j <= n THEN matrix0[i][j]
            ELSE IF i > n /\ j <= n THEN b_matrix[i - n][j]
            ELSE IF i <= n /\ j > n THEN b_matrix[j - n][i]
            ELSE 0]]

\* coo_matrix((values, (lines, columns))) resized to ncols columns: the shape
\* is inferred from the largest indices, entries at the same place are summed
CooMatrix(lines, columns, values, ncols) ==
    [r \in 1..(Max(Range(lines)) + 1) |-> [c \in 1..ncols |->
        SumSeq([e \in 1..Len(lines) |->
                   IF lines[e] = r - 1 /\ columns[e] = c - 1 THEN values[e] ELSE 0])]]

\* a variant of shrink_binary that counts the entries of B instead of its rows
AugmentBinaryCountsEntries(matrix0, rhs0, lines, columns, values) ==
    IF lines = <<>> \/ Len(lines) # Len(columns)
    THEN [err |-> "CooError", matrix |-> <<>>, rhs |-> <<>>, num_lagrange_mul |-> 0]
    ELSE [err |-> "none",
          matrix |-> SymmetricAugment(matrix0,
                         CooMatrix(lines, columns, values, Len(matrix0))),
          rhs |-> rhs0 \o Zeros(Len(lines)),
          num_lagrange_mul |-> Len(lines)]

\* shrink_binary, given the lists c of _calc_values_for_binary
AugmentBinary(matrix0, rhs0, lines, columns, values) ==
    IF lines = <<>> \/ Len(lines) # Len(columns)
    THEN [err |-> "CooError", matrix |-> <<>>, rhs |-> <<>>, num_lagrange_mul |-> 0]
    ELSE [err |-> "none",
          matrix |-> SymmetricAugment(matrix0,
                         CooMatrix(lines, columns, values, Len(matrix0))),
          rhs |-> rhs0 \o Zeros(Max(Range(lines)) + 1),
          num_lagrange_mul |-> Max(Range(lines)) + 1]

ShrinkBinaryWith(matrix0, rhs0, c) ==
    AugmentBinary(matrix0, rhs0, Concatenate(c.lines), Concatenate(c.columns),
                  Concatenate(c.values))

\* shrink_binary
ShrinkBinary(matrix0, rhs0, bcs, keys) ==
    ShrinkBinaryWith(matrix0, rhs0, CalcValuesForBinary(bcs, keys))

\* a variant of the block with the first node of the condition as master
FloatingBlockFirstMaster(nodes, ncols) ==
    [r \in 1..(Len(nodes) - 1) |-> [c \in 1..ncols |->
        (IF c - 1 = nodes[r + 1] THEN 1 ELSE 0)
        - (IF c - 1 = nodes[1] THEN 1 ELSE 0)]]

\* the matrix matrix_slave - matrix_master of one floating condition
FloatingBlock(nodes, ncols) ==
    [r \in 1..(Len(nodes) - 1) |-> [c \in 1..ncols |->
        (IF c - 1 = nodes[r] THEN 1 ELSE 0)
        - (IF c - 1 = nodes[Len(nodes)] THEN 1 ELSE 0)]]

\* the update of the system with the matrix b_matrix of all conditions
AugmentFloating(matrix0, rhs0, b_matrix) ==
    [err |-> "none",
     matrix |-> SymmetricAugment(matrix0, b_matrix),
     rhs |-> rhs0 \o Zeros(Len(b_matrix)),
     num_lagrange_mul |-> Len(b_matrix)]

\* shrink_floating, given the outcome f of _calc_values_for_floating
ShrinkFloatingWith(matrix0, rhs0, f) ==
    IF f.err # "none"
    THEN [err |-> f.err, matrix |-> <<>>, rhs |-> <<>>, num_lagrange_mul |-> 0]
    ELSE IF \E k \in 1..Len(f.idx) : Len(f.idx[k]) = 0
    THEN \* np.ones(-1)
         [err |-> "NegativeDimensions", matrix |-> <<>>, rhs |-> <<>>,
          num_lagrange_mul |-> 0]
    ELSE AugmentFloating(matrix0, rhs0,
             Concatenate([k \in 1..Len(f.idx) |-> FloatingBlock(f.idx[k], Len(matrix0))]))

\* shrink_floating
ShrinkFloating(matrix0, rhs0, bcs, keys) ==
    ShrinkFloatingWith(matrix0, rhs0, CalcValuesForFloating(bcs, keys))

\* a variant of indices_not_on_dirichlet without the set difference
IndicesNotOnDirichletAll(n, indices_on_dirichlet) == Arange(n)

\* a variant of indices_not_on_dirichlet over the nodes of the mesh
IndicesNotOnDirichletOfMesh(n, indices_on_dirichlet) ==
    SortedSeq(Nodes \ Range(indices_on_dirichlet))

\* np.setdiff1d(np.arange(n), indices_on_dirichlet)
IndicesNotOnDirichlet(n, indices_on_dirichlet) ==
    SortedSeq(Range(Arange(n)) \ Range(indices_on_dirichlet))

\* a variant of the update of the rhs that reads the values back to front
EliminateRhsValuesReversed(matrix0, rhs0, free, fixed, values) ==
    [a \in 1..Len(free) |->
        rhs0[free[a] + 1]
        - SumSeq([b \in 1..Len(fixed) |->
                     matrix0[free[a] + 1][fixed[b] + 1] * values[Len(fixed) + 1 - b]])]

\* rhs[free] - matrix[np.ix_(free, fixed)] * values
EliminateRhs(matrix0, rhs0, free, fixed, values) ==
    [a \in 1..Len(free) |->
        rhs0[free[a] + 1]
        - SumSeq([b \in 1..Len(fixed) |-> matrix0[free[a] + 1][fixed[b] + 1] * values[b]])]

\* matrix[np.ix_(free, free)]
EliminateMatrix(matrix0, free) ==
    [a \in 1..Len(free) |-> [b \in 1..Len(free) |-> matrix0[free[a] + 1][free[b] + 1]]]

\* the update of the system for the fixed indices and values
Eliminate(matrix0, rhs0, indices_on_dirichlet, indices_not_on_dirichlet, values_on_dirichlet) ==
    [err |-> "none",
     matrix |-> EliminateMatrix(matrix0, indices_not_on_dirichlet),
     rhs |-> EliminateRhs(matrix0, rhs0, indices_not_on_dirichlet,
                          indices_on_dirichlet, values_on_dirichlet),
     indices_on_dirichlet |-> indices_on_dirichlet,
     indices_not_on_dirichlet |-> indices_not_on_dirichlet,
     values_on_dirichlet |-> values_on_dirichlet]

\* shrink_dirichlet, given the outcome c of _calc_values_for_dirichlet
ShrinkDirichletWith(matrix0, rhs0, c) ==
    IF c.err # "none"
    THEN [err |-> c.err, matrix |-> <<>>, rhs |-> <<>>, indices_on_dirichlet |-> <<>>,
          indices_not_on_dirichlet |-> <<>>, values_on_dirichlet |-> <<>>]
    ELSE Eliminate(matrix0, rhs0, Concatenate(c.idx),
                   IndicesNotOnDirichlet(Len(matrix0), Concatenate(c.idx)),
                   Concatenate(c.val))

\* shrink_dirichlet
ShrinkDirichlet(matrix0, rhs0, bcs, keys) ==
    ShrinkDirichletWith(matrix0, rhs0, CalcValuesForDirichlet(bcs, keys))

(***************************************************************************)
(* Support data: a dictionary (a function on its keys).  The multiplier    *)
(* counts are integers, the three Dirichlet entries are None or an array.  *)
(***************************************************************************)
RequiredKeys == {"num_lagrange_mul_binary", "num_lagrange_mul_floating",
                 "indices_on_dirichlet", "indices_not_on_dirichlet",
                 "values_on_dirichlet"}

\* a variant of the support data that leaves out the keys of the Dirichlet
\* conditions when there are none
SupportDataWithoutAbsent(nb, nf, on, not_on, val) ==
    [key \in {k \in RequiredKeys :
                 \/ k \in {"num_lagrange_mul_binary", "num_lagrange_mul_floating"}
                 \/ on # None} |->
        CASE key = "num_lagrange_mul_binary" -> nb
          [] key = "num_lagrange_mul_floating" -> nf
          [] key = "indices_on_dirichlet" -> on
          [] key = "indices_not_on_dirichlet" -> not_on
          [] OTHER -> val]

\* the dictionary support_data of shrink and of compute_support_data
SupportData(nb, nf, on, not_on, val) ==
    [key \in RequiredKeys |->
        CASE key = "num_lagrange_mul_binary" -> nb
          [] key = "num_lagrange_mul_floating" -> nf
          [] key = "indices_on_dirichlet" -> on
          [] key = "indices_not_on_dirichlet" -> not_on
          [] OTHER -> val]

\* np.max(lines) + 1 for the list lines of _calc_values_for_binary: the list
\* becomes a 2D array only if all its arrays have one length
MaxOfLinesPlusOne(lines) ==
    IF \E i, j \in 1..Len(lines) : Len(lines[i]) # Len(lines[j])
    THEN [err |-> "InhomogeneousShape", n |-> 0]
    ELSE IF Concatenate(lines) = <<>>
    THEN [err |-> "EmptyMax", n |-> 0]
    ELSE [err |-> "none", n |-> Max(Range(Concatenate(lines))) + 1]

\* the number of floating multipliers for the node arrays idx
SumOfSizesMinusOne(idx) == SumSeq([k \in 1..Len(idx) |-> Len(idx[k]) - 1])

\* the dictionary of compute_support_data, given the outcomes b, f, d of the
\* three helper calls (binary, floating, Dirichlet)
AssembleSupportData(dict_of_bc, size_solution, b, f, d) ==
    IF b.err # "none" THEN [err |-> b.err, support_data |-> None]
    ELSE IF f.err # "none" THEN [err |-> f.err, support_data |-> None]
    ELSE IF d.err # "none" THEN [err |-> d.err, support_data |-> None]
    ELSE [err |-> "none",
          support_data |->
              IF dict_of_bc["dirichlet"] # <<>>
              THEN SupportData(b.n, SumOfSizesMinusOne(f.idx),
                       Some(Concatenate(d.idx)),
                       Some(IndicesNotOnDirichlet(
                                size_solution + Len(Concatenate(d.idx)),
                                Concatenate(d.idx))),
                       Some(Concatenate(d.val)))
              ELSE SupportData(b.n, SumOfSizesMinusOne(f.idx), None, None, None)]

\* compute_support_data(dict_of_bc, size_solution, problem)
ComputeSupportData(dict_of_bc, size_solution, bcs) ==
    AssembleSupportData(dict_of_bc, size_solution,
        IF dict_of_bc["binary"] # <<>>
        THEN MaxOfLinesPlusOne(CalcValuesForBinary(bcs, dict_of_bc["binary"]).lines)
        ELSE [err |-> "none", n |-> 0],
        IF dict_of_bc["floating"] # <<>>
        THEN CalcValuesForFloating(bcs, dict_of_bc["floating"])
        ELSE [err |-> "none", idx |-> <<>>],
        IF dict_of_bc["dirichlet"] # <<>>
        THEN CalcValuesForDirichlet(bcs, dict_of_bc["dirichlet"])
        ELSE [err |-> "none", idx |-> <<>>, val |-> <<>>])

(***************************************************************************)
(* The inflate methods.                                                    *)
(***************************************************************************)
\* the last position of array idx that holds i
LastPosition(idx, i) ==
    CHOOSE b \in 1..Len(idx) : idx[b] = i /\ \A c \in (b + 1)..Len(idx) : idx[c] # i

\* a variant of inflate_dirichlet that hands the values out in the order of
\* the sorted fixed indices instead of the order of indices_on_dirichlet
InflateDirichletSorted(solution0, indices_on_dirichlet, values_on_dirichlet, indices_not_on_dirichlet) ==
    [err |-> "none",
     out |-> [i \in 1..(Len(indices_on_dirichlet) + Len(indices_not_on_dirichlet)) |->
         IF (i - 1) \in Range(indices_on_dirichlet)
         THEN values_on_dirichlet[
                  Cardinality({m \in Range(indices_on_dirichlet) : m < i - 1}) + 1]
         ELSE IF Len(solution0) = 1 THEN solution0[1]
         ELSE solution0[LastPosition(indices_not_on_dirichlet, i - 1)]]]

\* inflate_dirichlet: an np.empty array, the solution scattered to the free
\* indices (a solution of length 1 is broadcast), then the values to the
\* fixed indices (of two writes to one entry the later one stays)
InflateDirichlet(solution0, indices_on_dirichlet, values_on_dirichlet, indices_not_on_dirichlet) ==
    LET n == Len(indices_on_dirichlet) + Len(indices_not_on_dirichlet)
    IN  IF \/ \E b \in 1..Len(indices_on_dirichlet) : indices_on_dirichlet[b] >= n
           \/ \E b \in 1..Len(indices_not_on_dirichlet) : indices_not_on_dirichlet[b] >= n
        THEN [err |-> "IndexError", out |-> <<>>]
        ELSE IF \/ Len(solution0) \notin {1, Len(indices_not_on_dirichlet)}
                \/ Len(values_on_dirichlet) # Len(indices_on_dirichlet)
        THEN [err |-> "ShapeMismatch", out |-> <<>>]
        ELSE [err |-> "none",
              out |-> [i \in 1..n |->
                  IF (i - 1) \in Range(indices_on_dirichlet)
                  THEN values_on_dirichlet[LastPosition(indices_on_dirichlet, i - 1)]
                  ELSE IF (i - 1) \in Range(indices_not_on_dirichlet)
                  THEN IF Len(solution0) = 1 THEN solution0[1]
                       ELSE solution0[LastPosition(indices_not_on_dirichlet, i - 1)]
                  ELSE Uninitialized]]

\* a variant of inflate_floating that keeps the multiplier entries
InflateFloatingKeepsAll(solution0, num_lagrange_mul) == solution0

\* inflate_floating
InflateFloating(solution0, num_lagrange_mul) ==
    SliceTo(solution0, Len(solution0) - num_lagrange_mul)

\* inflate_binary
InflateBinary(solution0, num_lagrange_mul) ==
    SliceTo(solution0, Len(solution0) - num_lagrange_mul)

\* whether inflate takes the given support data: it is given, not empty and
\* has every required key
SupportDataUsable(support_data) ==
    /\ support_data # None
    /\ DOMAIN support_data[1] # {}
    /\ RequiredKeys \subseteq DOMAIN support_data[1]

\* the inflate steps of inflate, with the support data sd
InflateSteps(solution0, by_type, sd) ==
    LET after_dirichlet ==
            IF by_type["dirichlet"] # <<>>
            THEN IF sd["indices_on_dirichlet"] = None
                 THEN [err |-> "TypeError", out |-> <<>>]
                 ELSE InflateDirichlet(solution0, sd["indices_on_dirichlet"][1],
                                       sd["values_on_dirichlet"][1],
                                       sd["indices_not_on_dirichlet"][1])
            ELSE [err |-> "none", out |-> solution0]
        after_floating ==
            IF by_type["floating"] # <<>>
            THEN InflateFloating(after_dirichlet.out, sd["num_lagrange_mul_floating"])
            ELSE after_dirichlet.out
    IN  IF after_dirichlet.err # "none" THEN after_dirichlet
        ELSE [err |-> "none",
              out |-> IF by_type["binary"] # <<>>
                      THEN InflateBinary(after_floating, sd["num_lagrange_mul_binary"])
                      ELSE after_floating]

\* inflate, given the support data it reads (computed.support_data) or the
\* exception of compute_support_data
InflateWith(solution0, by_type, computed) ==
    IF computed.err # "none" THEN [err |-> computed.err, out |-> <<>>]
    ELSE InflateSteps(solution0, by_type, computed.support_data)

\* a variant of inflate that hands the solution on without copying it
InflateMemoryNoCopy(by_type) ==
    IF by_type["dirichlet"] # <<>>
    THEN [base |-> "np.empty", written |-> {"np.empty"}]
    ELSE [base |-> "solution", written |-> {}]

\* the memory inflate works on: inflate_dirichlet fills a new np.empty array
\* by index assignment, without Dirichlet conditions the solution is copied;
\* inflate_floating and inflate_binary return slices, which are views of the
\* array they are given
InflateMemory(by_type) ==
    IF by_type["dirichlet"] # <<>>
    THEN [base |-> "np.empty", written |-> {"np.empty"}]
    ELSE [base |-> "solution.copy()", written |-> {}]

\* inflate(solution, problem, support_data); support_data is None or Some
\* dictionary
Inflate(solution0, bcs, support_data) ==
    InflateWith(solution0, DictOfBoundaryCondition(bcs),
        IF SupportDataUsable(support_data)
        THEN [err |-> "none", support_data |-> support_data[1]]
        ELSE ComputeSupportData(DictOfBoundaryCondition(bcs), Len(solution0), bcs))

(***************************************************************************)
(* The problems the model is run on.                                       *)
(***************************************************************************)
\* what the value of a Dirichlet condition can be: its kind and, for an
\* array, how much longer than the node array of the condition it is
ValueShapes ==
    {<<"scalar", 0>>, <<"time", 0>>, <<"other", 0>>, <<"unsupported", 0>>,
     <<"array", 0>>, <<"array", 1>>}

\* Dirichlet conditions on a region of dimension 0, 1 or 2, and with a
\* region of dimension 3
DirichletTemplates ==
    {[kind |-> "dirichlet", regs |-> {r}, shape |-> v, pairs |-> 0] :
        r \in {1, 2, 4}, v \in ValueShapes}
    \cup {[kind |-> "dirichlet", regs |-> rs, shape |-> <<"scalar", 0>>, pairs |-> 0] :
             rs \in {{5}, {4, 5}}}

FloatingTemplates ==
    {[kind |-> "floating", regs |-> rs, shape |-> <<"na", 0>>, pairs |-> 0] :
        rs \in {{1}, {2}, {3}, {2, 3}, {4}, {5}}}

BinaryTemplates ==
    {[kind |-> "binary", regs |-> {}, shape |-> <<"na", 0>>, pairs |-> p] :
        p \in 1..(NumNodes \div 2)}

OtherTemplates ==
    {[kind |-> "neumann", regs |-> {3}, shape |-> <<"na", 0>>, pairs |-> 0],
     [kind |-> "robin", regs |-> {2}, shape |-> <<"na", 0>>, pairs |-> 0]}

Templates == DirichletTemplates \cup FloatingTemplates \cup BinaryTemplates
             \cup OtherTemplates

KindRank(kind) == CHOOSE i \in 1..Len(Kinds) : Kinds[i] = kind

\* a region carries at most one condition; conditions are listed kind by
\* kind (only the order within a kind is read by the code)
Compatible(c, t) ==
    /\ \A i \in DOMAIN c : c[i].regs \cap t.regs = {}
    /\ \A i \in DOMAIN c : KindRank(c[i].kind) <= KindRank(t.kind)

\* the lists of n templates that make a problem
RECURSIVE Configurations(_)
Configurations(n) ==
    IF n = 0 THEN {<<>>}
    ELSE UNION {{Append(c, t) : t \in {x \in Templates : Compatible(c, x)}} :
                c \in Configurations(n - 1)}

\* the condition of template t with ID k: the values depend on the ID, so
\* that the conditions of a problem prescribe different values
MakeBC(t, k) ==
    [kind |-> t.kind, regs |-> t.regs, vkind |-> t.shape[1],
     value |-> IF t.kind = "binary" THEN k + 1 ELSE 10 * k + 5,
     array |-> IF t.shape[1] = "array"
               THEN [j \in 1..(Cardinality(UNION {DirichletNodesOfRegi(r) : r \in t.regs})
                               + t.shape[2]) |-> 10 * k + j]
               ELSE <<>>,
     primary_nodes |-> [j \in 1..t.pairs |-> j - 1],
     replica_nodes |-> [j \in 1..t.pairs |-> NumNodes - t.pairs + j - 1]]

Problems ==
    {[k \in DOMAIN c |-> MakeBC(c[k], k)] :
        c \in UNION {Configurations(n) : n \in 0..MaxBC}}

\* the assembled system: all entries different, not symmetric
InputMatrix == [i \in 1..NumNodes |-> [j \in 1..NumNodes |-> 10 * i + j]]

InputRhs == [i \in 1..NumNodes |-> i]

\* an assembled system that is symmetric
SymmetricInputMatrix ==
    [i \in 1..NumNodes |-> [j \in 1..NumNodes |-> 10 * (IF i < j THEN i ELSE j) + i + j]]

\* the reduced solutions handed to inflate start at one of these values
SolutionBases == {100, 200}

\* what inflate is given as support data
SdModes == {"given", "none", "empty", "incomplete"}

(***************************************************************************)
(* solve_linear_system (pyrit/problem/Problem.py).  A solver argument is   *)
(* a string, "<None>" for None or "<callable>" for a function.  A solution *)
(* is a record that names the solver that computed it.                     *)
(***************************************************************************)
\* the keys of the dictionary iteratiev_solvers
iteratiev_solvers ==
    {"bicg", "bicgstab", "cg", "cgs", "gmres", "lgmres", "minres", "qmr",
     "gcrotmk", "tfqmr"}

\* `not solver`: None and the empty string
Falsy(s) == s \in {"<None>", ""}

\* the solver after the default is filled in (kwargs holds no key 'solver':
\* solver is a parameter of its own)
EffectiveSolver(s) == IF Falsy(s) THEN "spsolve" ELSE s

\* a solver has computed a solution (complex iff the system is complex)
Solved(by, complex0) ==
    [err |-> "none", invoked |-> by, out |-> Some([by |-> by, complex |-> complex0])]

\* a variant of pypardiso.spsolve that hands the system to the direct sparse
\* solve when the package is missing
PypardisoSpsolveFallsBack(flag, complex0) ==
    IF flag THEN Solved("pardiso", complex0) ELSE Solved("spsolve", complex0)

\* pypardiso.spsolve: the package, or the stand-in class Pypardiso that
\* raises the ImportError of the failed import
PypardisoSpsolve(flag, complex0) ==
    IF flag
    THEN Solved("pardiso", complex0)
    ELSE [err |-> "ImportError", invoked |-> "none", out |-> None]

\* a variant of the dispatch that takes an unknown solver as the direct
\* sparse solve
DispatchFallsBack(s, complex0, flag) ==
    IF s = "pardiso" THEN PypardisoSpsolve(flag, complex0)
    ELSE IF s \in {"<callable>"} \cup iteratiev_solvers THEN Solved(s, complex0)
    ELSE Solved("spsolve", complex0)

\* the dispatch on a solver that is not falsy
Dispatch(s, complex0, flag) ==
    IF s = "<callable>"
    THEN Solved(s, complex0)
    ELSE IF s = "spsolve"
    THEN Solved(s, complex0)
    ELSE IF s \in iteratiev_solvers
    THEN Solved(s, complex0)
    ELSE IF s = "pardiso"
    THEN IF complex0
         THEN \* the real system of twice the size, its solution recombined
              PypardisoSpsolve(flag, TRUE)
         ELSE PypardisoSpsolve(flag, FALSE)
    ELSE [err |-> "SolverUnknownError", invoked |-> "none", out |-> None]

\* solve_linear_system(matrix, rhs, solver)
SolveLinearSystem(s, rhs_type0, complex0, flag) ==
    IF rhs_type0 \notin {"spmatrix", "ndarray"}
    THEN [err |-> "ValueError", invoked |-> "none", out |-> None]
    ELSE Dispatch(EffectiveSolver(s), complex0, flag)

\* the solver arguments and rhs types the model calls it with
Selectors ==
    {"<None>", "", "<callable>", "spsolve", "pardiso", "SPSOLVE", "lu"}
    \cup iteratiev_solvers

RhsTypes == {"spmatrix", "ndarray", "list"}

\* no call of solve_linear_system has been made
SolveIdle ==
    /\ solver = "<None>"
    /\ rhs_type = "spmatrix"
    /\ is_complex = FALSE
    /\ invoked = "none"
    /\ solve_out = None
    /\ solve_error = "none"

frame_problem ==
    <<flag_pypardiso, solver, rhs_type, is_complex, invoked, solve_out, solve_error>>

(***************************************************************************)
(* Problem.save and Problem.load (pyrit/problem/Problem.py).  An object is *)
(* the dictionary of its instance attributes (a function on their names);  *)
(* attributes of the class are found through the class.  A path is a       *)
(* record of its directory and the dot-separated parts of its file name.   *)
(***************************************************************************)
\* the attributes of the class Problem (problem_identifier)
ClassAttributes == [problem_identifier |-> "General problem"]

\* a dictionary with the entry k: v set, and with the key k removed
DictSet(d, k, v) == [x \in DOMAIN d \cup {k} |-> IF x = k THEN v ELSE d[x]]

DictDel(d, k) == [x \in DOMAIN d \ {k} |-> d[x]]

EmptyDict == [x \in {} |-> ""]

\* Path(path).with_suffix('.pkl'): the last suffix replaced, or the suffix
\* appended to a name without one
WithSuffixPkl(path) ==
    [dir |-> path.dir,
     name |-> IF Len(path.name) = 1 THEN path.name \o <<"pkl">>
              ELSE SubSeq(path.name, 1, Len(path.name) - 1) \o <<"pkl">>]

\* path.parent of a directory
ParentOf(dir) ==
    CASE dir = "." -> "."
      [] dir = "out" -> "."
      [] dir = "no/sub" -> "no"

\* a variant of the first loop of save that deletes nothing
RECURSIVE RemoveIgnoredKeepsAll(_, _, _)
RemoveIgnoredKeepsAll(obj, tmp_dict, ignore_attributes) ==
    IF ignore_attributes = <<>> THEN [obj |-> obj, tmp_dict |-> tmp_dict]
    ELSE RemoveIgnoredKeepsAll(obj, tmp_dict, Tail(ignore_attributes))

\* the first loop of save: every named attribute is stored in tmp_dict and
\* deleted; __getattribute__ finds attributes of the class too, delattr
\* does not, and an AttributeError of either is caught
RECURSIVE RemoveIgnored(_, _, _)
RemoveIgnored(obj, tmp_dict, ignore_attributes) ==
    IF ignore_attributes = <<>> THEN [obj |-> obj, tmp_dict |-> tmp_dict]
    ELSE IF Head(ignore_attributes) \in DOMAIN obj
    THEN RemoveIgnored(DictDel(obj, Head(ignore_attributes)),
                       DictSet(tmp_dict, Head(ignore_attributes),
                               obj[Head(ignore_attributes)]),
                       Tail(ignore_attributes))
    ELSE IF Head(ignore_attributes) \in DOMAIN ClassAttributes
    THEN RemoveIgnored(obj,
                       DictSet(tmp_dict, Head(ignore_attributes),
                               ClassAttributes[Head(ignore_attributes)]),
                       Tail(ignore_attributes))
    ELSE RemoveIgnored(obj, tmp_dict, Tail(ignore_attributes))

\* the second loop of save: every named attribute found in tmp_dict is set
RECURSIVE RestoreIgnored(_, _, _)
RestoreIgnored(obj, tmp_dict, ignore_attributes) ==
    IF ignore_attributes = <<>> THEN obj
    ELSE IF Head(ignore_attributes) \in DOMAIN tmp_dict
    THEN RestoreIgnored(DictSet(obj, Head(ignore_attributes),
                                tmp_dict[Head(ignore_attributes)]),
                        tmp_dict, Tail(ignore_attributes))
    ELSE RestoreIgnored(obj, tmp_dict, Tail(ignore_attributes))

\* the list save loops over: `if ignore_attributes:` skips None and []
IgnoreList(ignore_attributes) ==
    IF ignore_attributes = None THEN <<>> ELSE ignore_attributes[1]

\* what a file holds: nothing (it does not exist), a pickle of an object
\* (its class by reference, its instance dictionary by value) or the
\* remains of a dump that raised
NoFile == [kind |-> "none", state |-> EmptyDict]

BrokenFile == [kind |-> "broken", state |-> EmptyDict]

PickleOf(obj) == [kind |-> "pickle", state |-> obj]

\* pickle.dump raises on a value that cannot be pickled
Picklable(obj) == \A a \in DOMAIN obj : obj[a] # "<lambda>"

\* save, after the directory is there: r is the outcome of the first loop
SaveWith(fs, ds, p, ignore, r) ==
    IF ~Picklable(r.obj)
    THEN [err |-> "PicklingError", obj |-> r.obj,
          files |-> [fs EXCEPT ![p] = BrokenFile], dirs |-> ds, out |-> None]
    ELSE [err |-> "none", obj |-> RestoreIgnored(r.obj, r.tmp_dict, ignore),
          files |-> [fs EXCEPT ![p] = PickleOf(r.obj)], dirs |-> ds, out |-> Some(p)]

\* Problem.save(path, ignore_attributes) on the object obj
Save(obj, fs, ds, path, ignore_attributes) ==
    IF WithSuffixPkl(path).dir \notin ds /\ ParentOf(WithSuffixPkl(path).dir) \notin ds
    THEN \* path.parent.mkdir() without parents
         [err |-> "FileNotFoundError", obj |-> obj, files |-> fs, dirs |-> ds,
          out |-> None]
    ELSE SaveWith(fs, ds \cup {WithSuffixPkl(path).dir}, WithSuffixPkl(path),
                  IgnoreList(ignore_attributes),
                  RemoveIgnored(obj, EmptyDict, IgnoreList(ignore_attributes)))

\* Problem.load(path)
Load(fs, path) ==
    IF fs[WithSuffixPkl(path)].kind = "none"
    THEN [err |-> "FileNotFoundError", out |-> None]
    ELSE IF fs[WithSuffixPkl(path)].kind = "broken"
    THEN [err |-> "UnpicklingError", out |-> None]
    ELSE [err |-> "none", out |-> Some(fs[WithSuffixPkl(path)].state)]

\* the paths, ignore lists and objects of the model
Directories == {".", "out", "no/sub"}

FileNames == {<<"a">>, <<"a", "txt">>, <<"b", "tar", "gz">>}

PathArgs == {[dir |-> d, name |-> n] : d \in Directories, n \in FileNames}

Files == {WithSuffixPkl(p) : p \in PathArgs}

IgnoreArgs ==
    {None, Some(<<>>), Some(<<"mesh">>), Some(<<"mesh", "mesh">>),
     Some(<<"nothere">>), Some(<<"problem_identifier">>),
     Some(<<"monitors", "mesh">>)}

ProblemObjects ==
    {[description |-> "d", mesh |-> "m1"],
     [description |-> "d", mesh |-> "m2", monitors |-> "v"],
     [description |-> "d", mesh |-> "m1", monitors |-> "<lambda>"]}

\* no call of save or load has been made
SaveLoadIdle ==
    /\ files = [f \in Files |-> NoFile]
    /\ dirs = {"."}
    /\ saves = 0
    /\ save_arg = None
    /\ save_before = None
    /\ save_out = None
    /\ save_error = "none"
    /\ load_arg = None
    /\ load_file = None
    /\ load_out = None
    /\ load_error = "none"

frame_saveload ==
    <<problem_attrs, files, dirs, saves, save_arg, save_before, save_out,
      save_error, load_arg, load_file, load_out, load_error>>

(***************************************************************************)
(* Problem.consistency_check.  A region is a record of its references mat, *)
(* bc and exci, each None or Some ID; a container is the set of the IDs it *)
(* holds.                                                                  *)
(***************************************************************************)
\* `if region.mat:` and the like: None and the ID 0 are falsy
Referenced(ref) == ref # None /\ ref[1] # 0

\* a variant of the look-up whose KeyError is not caught
CheckReferenceUncaught(kind, ref, ids) ==
    IF ~Referenced(ref) THEN [err |-> "none", log |-> <<>>]
    ELSE IF ref[1] \in ids THEN [err |-> "none", log |-> <<>>]
    ELSE [err |-> "KeyError", log |-> <<>>]

\* one of the three blocks of the loop body: the look-up in the container,
\* and the warning for the KeyError of an ID it does not hold
CheckReference(kind, ref, ids) ==
    IF ~Referenced(ref) THEN [err |-> "none", log |-> <<>>]
    ELSE IF ref[1] \in ids THEN [err |-> "none", log |-> <<>>]
    ELSE [err |-> "none", log |-> << <<kind, ref[1]>> >>]

\* the blocks one after the other: an exception ends the call
CheckBlocks(a, b, c) ==
    IF a.err # "none" THEN a
    ELSE IF b.err # "none" THEN [err |-> b.err, log |-> a.log \o b.log]
    ELSE [err |-> c.err, log |-> a.log \o b.log \o c.log]

\* the loop body for one region
CheckRegion(region, ids) ==
    CheckBlocks(CheckReference("material", region.mat, ids.mat),
                CheckReference("boundary condition", region.bc, ids.bc),
                CheckReference("excitation", region.exci, ids.exci))

\* the references, regions and containers of the model
References == {None, Some(1), Some(2)}

RegionTemplates ==
    {[mat |-> m, bc |-> b, exci |-> e] : m \in References, b \in References, e \in References}
    \cup {[mat |-> Some(0), bc |-> Some(2), exci |-> None],
          [mat |-> None, bc |-> Some(0), exci |-> Some(0)]}

RECURSIVE RegionLists(_)
RegionLists(n) ==
    IF n = 0 THEN {<<>>}
    ELSE RegionLists(n - 1)
         \cup {Append(l, r) : l \in {x \in RegionLists(n - 1) : Len(x) = n - 1},
                              r \in RegionTemplates}

ContainerChoices ==
    {[mat |-> {1}, bc |-> {1}, exci |-> {1}],
     [mat |-> {}, bc |-> {1, 2}, exci |-> {}]}

CheckIdle ==
    /\ regions = <<>>
    /\ containers = [mat |-> {}, bc |-> {}, exci |-> {}]
    /\ check_pos = 0
    /\ warnings = <<>>
    /\ check_error = "none"

frame_check == <<regions, containers, check_pos, warnings, check_error>>

(***************************************************************************)
(* TransientProblem._monitors_preprocessing.  The dictionary monitors is   *)
(* the sequence of its values in iteration order (the key of a value is    *)
(* its position); a value is a record: form "plain" for a monitor alone,   *)
(* "int" for a tuple (n, monitor) with an int n, "array" for a tuple       *)
(* (array, monitor).  A monitor is a name (a str) or "<callable>".         *)
(***************************************************************************)
\* np.arange(start=0, stop=stop, step=step) for a step other than 0
ArangeStep(stop, step) ==
    IF step < 0 \/ stop <= 0 THEN <<>>
    ELSE [i \in 1..((stop + step - 1) \div step) |-> (i - 1) * step]

\* a variant of the indices of an integer step without the last index
StepIndicesWithoutLast(K, n) ==
    IF n = 0 THEN [err |-> "ZeroDivisionError", indices |-> <<>>]
    ELSE IF ArangeStep(K, n) = <<>> THEN [err |-> "IndexError", indices |-> <<>>]
    ELSE [err |-> "none", indices |-> ArangeStep(K, n)]

\* tmp for the integer step n over K time steps: np.arange raises for the
\* step 0, tmp[-1] raises for an empty array
StepIndices(K, n) ==
    IF n = 0 THEN [err |-> "ZeroDivisionError", indices |-> <<>>]
    ELSE IF ArangeStep(K, n) = <<>> THEN [err |-> "IndexError", indices |-> <<>>]
    ELSE IF ArangeStep(K, n)[Len(ArangeStep(K, n))] # K - 1
    THEN [err |-> "none", indices |-> ArangeStep(K, n) \o <<K - 1>>]
    ELSE [err |-> "none", indices |-> ArangeStep(K, n)]

\* tmp_monitor[0] for the value monitor
MonitorIndices(K, monitor) ==
    IF monitor.form = "int" THEN StepIndices(K, monitor.n)
    ELSE IF monitor.form = "array" THEN [err |-> "none", indices |-> monitor.array]
    ELSE [err |-> "none", indices |-> Arange(K)]

\* tmp_monitor[1]: the method a name stands for, or the monitor itself
MonitorFunction(available, monitor) ==
    IF monitor.monitor = "<callable>" THEN [err |-> "none", function |-> "<callable>"]
    ELSE IF monitor.monitor \in DOMAIN available
    THEN [err |-> "none", function |-> available[monitor.monitor]]
    ELSE [err |-> "KeyError", function |-> ""]

\* the loop body: tmp_monitor for one value, or the exception raised
TmpMonitor(K, available, monitor) ==
    IF MonitorIndices(K, monitor).err # "none"
    THEN [err |-> MonitorIndices(K, monitor).err, indices |-> <<>>, function |-> ""]
    ELSE IF MonitorFunction(available, monitor).err # "none"
    THEN [err |-> MonitorFunction(available, monitor).err, indices |-> <<>>,
          function |-> ""]
    ELSE [err |-> "none", indices |-> MonitorIndices(K, monitor).indices,
          function |-> MonitorFunction(available, monitor).function]

\* the first exception of the loop (one[k] is the outcome of value k), or
\* internal_monitors
FirstErrorOrMonitors(one) ==
    IF \E k \in DOMAIN one : one[k].err # "none"
    THEN [err |-> one[CHOOSE k \in DOMAIN one :
                         /\ one[k].err # "none"
                         /\ \A j \in 1..(k - 1) : one[j].err = "none"].err,
          out |-> None]
    ELSE [err |-> "none",
          out |-> Some([k \in DOMAIN one |->
                           [indices |-> one[k].indices, function |-> one[k].function]])]

\* _monitors_preprocessing(monitors); monitors is None or Some dictionary
MonitorsPreprocessing(K, available, monitors0) ==
    IF monitors0 = None THEN [err |-> "none", out |-> Some(<<>>)]
    ELSE FirstErrorOrMonitors(
             [k \in 1..Len(monitors0[1]) |-> TmpMonitor(K, available, monitors0[1][k])])

\* the values of the dictionaries the model calls it with
MonitorValues ==
    {[form |-> "plain", n |-> 0, array |-> <<>>, monitor |-> m] :
        m \in {"<callable>", "energy", "unknown"}}
    \cup {[form |-> "int", n |-> n, array |-> <<>>, monitor |-> m] :
             n \in (0 - 1)..MaxStep, m \in {"<callable>", "energy"}}
    \cup {[form |-> "array", n |-> 0, array |-> <<0, 2>>, monitor |-> "<callable>"]}

RECURSIVE MonitorDicts(_)
MonitorDicts(n) ==
    IF n = 0 THEN {<<>>}
    ELSE MonitorDicts(n - 1)
         \cup {Append(d, v) : d \in {x \in MonitorDicts(n - 1) : Len(x) = n - 1},
                              v \in MonitorValues}

MonitorArgs == {None} \cup {Some(d) : d \in MonitorDicts(MaxMonitors)}

\* available_monitors of TransientProblem, and of a class that names a method
AvailableChoices == {EmptyDict, [energy |-> "_energy_monitor"]}

MonitorsIdle ==
    /\ time_steps = 0
    /\ available_monitors = EmptyDict
    /\ monitors = None
    /\ internal_monitors = None
    /\ monitors_error = "none"

frame_monitors ==
    <<time_steps, available_monitors, monitors, internal_monitors, monitors_error>>

(***************************************************************************)
(* HarmonicProblem: the constructor and the property frequency.            *)
(***************************************************************************)
\* a variant of the setter that stores the frequency before it checks it
FrequencySetterStoresFirst(_frequency, frequency0) ==
    IF frequency0 < 0 THEN [err |-> "ValueError", _frequency |-> Some(frequency0)]
    ELSE [err |-> "none", _frequency |-> Some(frequency0)]

\* the setter of frequency on an object with the attribute _frequency
FrequencySetter(_frequency, frequency0) ==
    IF frequency0 < 0 THEN [err |-> "ValueError", _frequency |-> _frequency]
    ELSE [err |-> "none", _frequency |-> Some(frequency0)]

\* HarmonicProblem(..., frequency): _frequency is None, then the setter; an
\* exception leaves no object
HarmonicProblemInit(frequency0) ==
    IF FrequencySetter(None, frequency0).err # "none"
    THEN [err |-> FrequencySetter(None, frequency0).err, _frequency |-> None]
    ELSE FrequencySetter(None, frequency0)

Frequencies == (0 - MaxFrequency)..MaxFrequency

HarmonicIdle ==
    /\ frequency = None
    /\ frequency_arg = None
    /\ frequency_before = None
    /\ frequency_error = "none"
    /\ frequency_calls = 0

frame_harmonic ==
    <<frequency, frequency_arg, frequency_before, frequency_error, frequency_calls>>

(***************************************************************************)
(* The state machine: one shrink call, step by step, then either inflate   *)
(* or a direct call of compute_support_data.                               *)
(***************************************************************************)
bc_by_type == DictOfBoundaryCondition(boundary_conditions)

\* the state at the call of shrink, but for the matrix handed to it
InitOfCall ==
    /\ boundary_conditions \in Problems
    /\ rhs_in = InputRhs
    /\ pc = "neumann"
    /\ matrix = matrix_in
    /\ rhs = rhs_in
    /\ steps = <<>>
    /\ num_lagrange_mul_binary = 0
    /\ num_lagrange_mul_floating = 0
    /\ ind_on_dir = None
    /\ ind_not_on_dir = None
    /\ val_on_dir = None
    /\ error = "none"
    /\ shrink_out = None
    /\ csd_out = None
    /\ solution = <<>>
    /\ sd_mode = "none"
    /\ inflate_out = None
    /\ inflate_base = "none"
    /\ written = {}
    /\ flag_pypardiso = TRUE
    /\ SolveIdle
    /\ problem_attrs = EmptyDict
    /\ SaveLoadIdle
    /\ CheckIdle
    /\ MonitorsIdle
    /\ HarmonicIdle

Init ==
    /\ matrix_in = InputMatrix
    /\ InitOfCall

\* a variant of the order of the steps: floating before binary
NextStepFloatingFirst(step) ==
    CASE step = "neumann" -> "robin"
      [] step = "robin" -> "floating"
      [] step = "floating" -> "binary"
      [] step = "binary" -> "dirichlet"
      [] step = "dirichlet" -> "return"

\* the order of the steps of shrink
NextStep(step) ==
    CASE step = "neumann" -> "robin"
      [] step = "robin" -> "binary"
      [] step = "binary" -> "floating"
      [] step = "floating" -> "dirichlet"
      [] step = "dirichlet" -> "return"

\* a variant of the guards with the condition inverted
StepRunsInverted(kind) == bc_by_type[kind] = <<>>

\* whether shrink runs the step of a kind
StepRuns(kind) == bc_by_type[kind] # <<>>

frame_inputs == <<boundary_conditions, matrix_in, rhs_in>>

frame_after ==
    <<shrink_out, csd_out, solution, sd_mode, inflate_out, inflate_base, written>>

StepNeumann ==
    /\ pc = "neumann"
    /\ IF StepRuns("neumann")
       THEN /\ rhs' = ShrinkNeumann(rhs, boundary_conditions)
            /\ steps' = Append(steps, "neumann")
       ELSE UNCHANGED <<rhs, steps>>
    /\ pc' = NextStep("neumann")
    /\ UNCHANGED <<matrix, num_lagrange_mul_binary, num_lagrange_mul_floating,
                   ind_on_dir, ind_not_on_dir, val_on_dir, error>>
    /\ UNCHANGED <<frame_inputs, frame_after, frame_problem, frame_saveload,
                   frame_check, frame_monitors, frame_harmonic>>

StepRobin ==
    /\ pc = "robin"
    /\ IF StepRuns("robin")
       THEN LET r == ShrinkRobin(matrix, rhs, boundary_conditions)
            IN  /\ matrix' = r.matrix
                /\ rhs' = r.rhs
                /\ steps' = Append(steps, "robin")
       ELSE UNCHANGED <<matrix, rhs, steps>>
    /\ pc' = NextStep("robin")
    /\ UNCHANGED <<num_lagrange_mul_binary, num_lagrange_mul_floating,
                   ind_on_dir, ind_not_on_dir, val_on_dir, error>>
    /\ UNCHANGED <<frame_inputs, frame_after, frame_problem, frame_saveload,
                   frame_check, frame_monitors, frame_harmonic>>

StepBinary ==
    /\ pc = "binary"
    /\ IF StepRuns("binary")
       THEN LET r == ShrinkBinary(matrix, rhs, boundary_conditions, bc_by_type["binary"])
            IN  /\ steps' = Append(steps, "binary")
                /\ error' = r.err
                /\ IF r.err = "none"
                   THEN /\ matrix' = r.matrix
                        /\ rhs' = r.rhs
                        /\ num_lagrange_mul_binary' = r.num_lagrange_mul
                        /\ written' = written \cup {"binary_matrix"}
                        /\ pc' = NextStep("binary")
                   ELSE /\ pc' = "failed"
                        /\ UNCHANGED <<matrix, rhs, num_lagrange_mul_binary, written>>
       ELSE /\ pc' = NextStep("binary")
            /\ UNCHANGED <<matrix, rhs, steps, num_lagrange_mul_binary, error,
                           written>>
    /\ UNCHANGED <<num_lagrange_mul_floating, ind_on_dir, ind_not_on_dir, val_on_dir>>
    /\ UNCHANGED <<shrink_out, csd_out, solution, sd_mode, inflate_out, inflate_base>>
    /\ UNCHANGED <<frame_inputs, frame_problem, frame_saveload,
                   frame_check, frame_monitors, frame_harmonic>>

StepFloating ==
    /\ pc = "floating"
    /\ IF StepRuns("floating")
       THEN LET r == ShrinkFloating(matrix, rhs, boundary_conditions,
                                    bc_by_type["floating"])
            IN  /\ steps' = Append(steps, "floating")
                /\ error' = r.err
                /\ IF r.err = "none"
                   THEN /\ matrix' = r.matrix
                        /\ rhs' = r.rhs
                        /\ num_lagrange_mul_floating' = r.num_lagrange_mul
                        /\ pc' = NextStep("floating")
                   ELSE /\ pc' = "failed"
                        /\ UNCHANGED <<matrix, rhs, num_lagrange_mul_floating>>
       ELSE /\ pc' = NextStep("floating")
            /\ UNCHANGED <<matrix, rhs, steps, num_lagrange_mul_floating, error>>
    /\ UNCHANGED <<num_lagrange_mul_binary, ind_on_dir, ind_not_on_dir, val_on_dir>>
    /\ UNCHANGED <<frame_inputs, frame_after, frame_problem, frame_saveload,
                   frame_check, frame_monitors, frame_harmonic>>

StepDirichlet ==
    /\ pc = "dirichlet"
    /\ IF StepRuns("dirichlet")
       THEN LET r == ShrinkDirichlet(matrix, rhs, boundary_conditions,
                                     bc_by_type["dirichlet"])
            IN  /\ steps' = Append(steps, "dirichlet")
                /\ error' = r.err
                /\ IF r.err = "none"
                   THEN /\ matrix' = r.matrix
                        /\ rhs' = r.rhs
                        /\ ind_on_dir' = Some(r.indices_on_dirichlet)
                        /\ ind_not_on_dir' = Some(r.indices_not_on_dirichlet)
                        /\ val_on_dir' = Some(r.values_on_dirichlet)
                        /\ pc' = NextStep("dirichlet")
                   ELSE /\ pc' = "failed"
                        /\ UNCHANGED <<matrix, rhs, ind_on_dir, ind_not_on_dir, val_on_dir>>
       ELSE /\ pc' = NextStep("dirichlet")
            /\ UNCHANGED <<matrix, rhs, steps, ind_on_dir, ind_not_on_dir, val_on_dir,
                           error>>
    /\ UNCHANGED <<num_lagrange_mul_binary, num_lagrange_mul_floating>>
    /\ UNCHANGED <<frame_inputs, frame_after, frame_problem, frame_saveload,
                   frame_check, frame_monitors, frame_harmonic>>

\* "Prepare output data" and the return of shrink
ShrinkReturn ==
    /\ pc = "return"
    /\ shrink_out' = Some(
           [matrix |-> matrix,
            rhs |-> rhs,
            indices_not_dof |-> IF ind_on_dir # None THEN ind_on_dir[1] ELSE <<>>,
            num_lagrange_mul |-> num_lagrange_mul_binary + num_lagrange_mul_floating,
            support_data |-> SupportData(num_lagrange_mul_binary,
                                         num_lagrange_mul_floating,
                                         ind_on_dir, ind_not_on_dir, val_on_dir)])
    /\ pc' = "shrunk"
    /\ UNCHANGED <<matrix, rhs, steps, num_lagrange_mul_binary,
                   num_lagrange_mul_floating, ind_on_dir, ind_not_on_dir, val_on_dir,
                   error, csd_out, solution, sd_mode, inflate_out, inflate_base,
                   written>>
    /\ UNCHANGED <<frame_inputs, frame_problem, frame_saveload,
                   frame_check, frame_monitors, frame_harmonic>>

\* the support data argument of inflate in mode m, missing key `key` when
\* incomplete
SupportDataArgument(m, key) ==
    CASE m = "given" -> Some(shrink_out[1].support_data)
      [] m = "none" -> None
      [] m = "empty" -> Some(<<>>)
      [] m = "incomplete" ->
            Some([k \in RequiredKeys \ {key} |-> shrink_out[1].support_data[k]])

\* inflate, called with a solution of the reduced system
InflateCall ==
    /\ pc = "shrunk"
    /\ \E base \in SolutionBases, m \in SdModes, key \in RequiredKeys :
        LET v == [i \in 1..Len(shrink_out[1].matrix) |-> base + i]
            r == Inflate(v, boundary_conditions, SupportDataArgument(m, key))
        IN  /\ solution' = v
            /\ sd_mode' = m
            /\ error' = r.err
            /\ inflate_out' = IF r.err = "none" THEN Some(r.out) ELSE None
            /\ inflate_base' = IF r.err = "none" THEN InflateMemory(bc_by_type).base
                               ELSE inflate_base
            /\ written' = IF r.err = "none"
                          THEN written \cup InflateMemory(bc_by_type).written
                          ELSE written
            /\ pc' = IF r.err = "none" THEN "inflated" ELSE "inflate_failed"
    /\ UNCHANGED <<matrix, rhs, steps, num_lagrange_mul_binary,
                   num_lagrange_mul_floating, ind_on_dir, ind_not_on_dir, val_on_dir,
                   shrink_out, csd_out>>
    /\ UNCHANGED <<frame_inputs, frame_problem, frame_saveload,
                   frame_check, frame_monitors, frame_harmonic>>

\* compute_support_data, called with the length of the reduced solution, or,
\* after a failed shrink, with the length of any vector
ComputeSupportDataCall ==
    /\ pc \in {"shrunk", "failed"}
    /\ \E size_solution \in IF pc = "shrunk" THEN {Len(shrink_out[1].matrix)}
                            ELSE {NumNodes} :
        LET r == ComputeSupportData(bc_by_type, size_solution, boundary_conditions)
        IN  /\ error' = r.err
            /\ csd_out' = IF r.err = "none" THEN Some(r.support_data) ELSE None
            /\ pc' = IF r.err = "none" THEN "recomputed" ELSE "recompute_failed"
    /\ UNCHANGED <<matrix, rhs, steps, num_lagrange_mul_binary,
                   num_lagrange_mul_floating, ind_on_dir, ind_not_on_dir, val_on_dir,
                   shrink_out, solution, sd_mode, inflate_out, inflate_base,
                   written>>
    /\ UNCHANGED <<frame_inputs, frame_problem, frame_saveload,
                   frame_check, frame_monitors, frame_harmonic>>

Next ==
    \/ StepNeumann
    \/ StepRobin
    \/ StepBinary
    \/ StepFloating
    \/ StepDirichlet
    \/ ShrinkReturn
    \/ InflateCall
    \/ ComputeSupportDataCall

Spec == Init /\ [][Next]_vars

(***************************************************************************)
(* The calls on a problem: solve_linear_system, on a system that is not    *)
(* being shrunk.                                                           *)
(***************************************************************************)
\* shrink and inflate on a symmetric system
SymmetricInit ==
    /\ matrix_in = SymmetricInputMatrix
    /\ InitOfCall

SymmetricSpec == SymmetricInit /\ [][Next]_vars

ProblemInit ==
    /\ boundary_conditions = <<>>
    /\ matrix_in = InputMatrix
    /\ rhs_in = InputRhs
    /\ pc = "idle"
    /\ matrix = matrix_in
    /\ rhs = rhs_in
    /\ steps = <<>>
    /\ num_lagrange_mul_binary = 0
    /\ num_lagrange_mul_floating = 0
    /\ ind_on_dir = None
    /\ ind_not_on_dir = None
    /\ val_on_dir = None
    /\ error = "none"
    /\ shrink_out = None
    /\ csd_out = None
    /\ solution = <<>>
    /\ sd_mode = "none"
    /\ inflate_out = None
    /\ inflate_base = "none"
    /\ written = {}
    /\ flag_pypardiso \in BOOLEAN
    /\ SolveIdle
    /\ problem_attrs = EmptyDict
    /\ SaveLoadIdle
    /\ CheckIdle
    /\ MonitorsIdle
    /\ HarmonicIdle

frame_shrink ==
    <<boundary_conditions, matrix_in, rhs_in, pc, matrix, rhs, steps,
      num_lagrange_mul_binary, num_lagrange_mul_floating, ind_on_dir,
      ind_not_on_dir, val_on_dir, error, shrink_out, csd_out, solution,
      sd_mode, inflate_out, inflate_base, written>>

SolveCall ==
    /\ \E s \in Selectors, t \in RhsTypes, c \in BOOLEAN :
        LET r == SolveLinearSystem(s, t, c, flag_pypardiso)
        IN  /\ solver' = s
            /\ rhs_type' = t
            /\ is_complex' = c
            /\ invoked' = r.invoked
            /\ solve_out' = r.out
            /\ solve_error' = r.err
    /\ UNCHANGED <<flag_pypardiso, frame_shrink, frame_saveload>>
    /\ UNCHANGED <<frame_check, frame_monitors, frame_harmonic>>

ProblemNext ==
    \/ SolveCall

ProblemSpec == ProblemInit /\ [][ProblemNext]_vars

(***************************************************************************)
(* Saving and loading a problem.                                           *)
(***************************************************************************)
SaveLoadInit ==
    /\ boundary_conditions = <<>>
    /\ matrix_in = InputMatrix
    /\ rhs_in = InputRhs
    /\ pc = "idle"
    /\ matrix = matrix_in
    /\ rhs = rhs_in
    /\ steps = <<>>
    /\ num_lagrange_mul_binary = 0
    /\ num_lagrange_mul_floating = 0
    /\ ind_on_dir = None
    /\ ind_not_on_dir = None
    /\ val_on_dir = None
    /\ error = "none"
    /\ shrink_out = None
    /\ csd_out = None
    /\ solution = <<>>
    /\ sd_mode = "none"
    /\ inflate_out = None
    /\ inflate_base = "none"
    /\ written = {}
    /\ flag_pypardiso = TRUE
    /\ SolveIdle
    /\ problem_attrs \in ProblemObjects
    /\ SaveLoadIdle
    /\ CheckIdle
    /\ MonitorsIdle
    /\ HarmonicIdle

SaveCall ==
    /\ saves < MaxSaves
    /\ \E path \in PathArgs, ignore_attributes \in IgnoreArgs :
        LET r == Save(problem_attrs, files, dirs, path, ignore_attributes)
        IN  /\ save_arg' = Some([path |-> path, ignore_attributes |-> ignore_attributes])
            /\ save_before' = Some(problem_attrs)
            /\ problem_attrs' = r.obj
            /\ files' = r.files
            /\ dirs' = r.dirs
            /\ save_out' = r.out
            /\ save_error' = r.err
    /\ saves' = saves + 1
    /\ UNCHANGED <<load_arg, load_file, load_out, load_error>>
    /\ UNCHANGED <<frame_shrink, frame_problem>>
    /\ UNCHANGED <<frame_check, frame_monitors, frame_harmonic>>

\* load, with a path of the caller or with the path save returned
LoadCall ==
    /\ \E path \in PathArgs \cup (IF save_out = None THEN {} ELSE {save_out[1]}) :
        LET r == Load(files, path)
        IN  /\ load_arg' = Some(path)
            /\ load_file' = Some(WithSuffixPkl(path))
            /\ load_out' = r.out
            /\ load_error' = r.err
    /\ UNCHANGED <<problem_attrs, files, dirs, saves, save_arg, save_before,
                   save_out, save_error>>
    /\ UNCHANGED <<frame_shrink, frame_problem>>
    /\ UNCHANGED <<frame_check, frame_monitors, frame_harmonic>>

SaveLoadNext ==
    \/ SaveCall
    \/ LoadCall

SaveLoadSpec == SaveLoadInit /\ [][SaveLoadNext]_vars

(***************************************************************************)
(* consistency_check, one iteration of its loop at a time.                 *)
(***************************************************************************)
\* shrink, solve_linear_system and save / load are not running
OthersIdle ==
    /\ boundary_conditions = <<>>
    /\ matrix_in = InputMatrix
    /\ rhs_in = InputRhs
    /\ pc = "idle"
    /\ matrix = matrix_in
    /\ rhs = rhs_in
    /\ steps = <<>>
    /\ num_lagrange_mul_binary = 0
    /\ num_lagrange_mul_floating = 0
    /\ ind_on_dir = None
    /\ ind_not_on_dir = None
    /\ val_on_dir = None
    /\ error = "none"
    /\ shrink_out = None
    /\ csd_out = None
    /\ solution = <<>>
    /\ sd_mode = "none"
    /\ inflate_out = None
    /\ inflate_base = "none"
    /\ written = {}
    /\ flag_pypardiso = TRUE
    /\ SolveIdle
    /\ problem_attrs = EmptyDict
    /\ SaveLoadIdle

frame_others == <<frame_shrink, frame_problem, frame_saveload>>

ConsistencyInit ==
    /\ OthersIdle
    /\ regions \in RegionLists(MaxRegions)
    /\ containers \in ContainerChoices
    /\ check_pos = 0
    /\ warnings = <<>>
    /\ check_error = "none"
    /\ MonitorsIdle
    /\ HarmonicIdle

\* the call, up to the loop
CheckStart ==
    /\ check_pos = 0
    /\ check_pos' = 1
    /\ UNCHANGED <<regions, containers, warnings, check_error>>
    /\ UNCHANGED <<frame_others, frame_monitors, frame_harmonic>>

\* one iteration of `for region in self.regions`
CheckNextRegion ==
    /\ check_pos \in 1..Len(regions)
    /\ LET r == CheckRegion(regions[check_pos], containers)
       IN  /\ warnings' = warnings \o r.log
           /\ check_error' = r.err
           /\ check_pos' = IF r.err = "none" THEN check_pos + 1 ELSE -1
    /\ UNCHANGED <<regions, containers>>
    /\ UNCHANGED <<frame_others, frame_monitors, frame_harmonic>>

\* the end of the loop and the return
CheckReturn ==
    /\ check_pos = Len(regions) + 1
    /\ check_pos' = Len(regions) + 2
    /\ UNCHANGED <<regions, containers, warnings, check_error>>
    /\ UNCHANGED <<frame_others, frame_monitors, frame_harmonic>>

ConsistencyNext ==
    \/ CheckStart
    \/ CheckNextRegion
    \/ CheckReturn

ConsistencySpec == ConsistencyInit /\ [][ConsistencyNext]_vars

(***************************************************************************)
(* _monitors_preprocessing on a transient problem with its time steps.     *)
(***************************************************************************)
MonitorsInit ==
    /\ OthersIdle
    /\ CheckIdle
    /\ time_steps \in 0..MaxTimeSteps
    /\ available_monitors \in AvailableChoices
    /\ monitors = None
    /\ internal_monitors = None
    /\ monitors_error = "none"
    /\ HarmonicIdle

\* one call per behaviour: the method keeps nothing between calls
MonitorsPreprocessingCall ==
    /\ internal_monitors = None
    /\ monitors_error = "none"
    /\ \E arg \in MonitorArgs :
        LET r == MonitorsPreprocessing(time_steps, available_monitors, arg)
        IN  /\ monitors' = arg
            /\ internal_monitors' = r.out
            /\ monitors_error' = r.err
    /\ UNCHANGED <<time_steps, available_monitors>>
    /\ UNCHANGED <<frame_others, frame_check, frame_harmonic>>

MonitorsNext == MonitorsPreprocessingCall

MonitorsSpec == MonitorsInit /\ [][MonitorsNext]_vars

(***************************************************************************)
(* A harmonic problem: constructed, then its frequency assigned.           *)
(***************************************************************************)
HarmonicInit ==
    /\ OthersIdle
    /\ CheckIdle
    /\ MonitorsIdle
    /\ HarmonicIdle

\* the constructor, while there is no problem object
Construct ==
    /\ frequency = None
    /\ frequency_calls < MaxCalls
    /\ \E f \in Frequencies :
        /\ frequency_arg' = Some(f)
        /\ frequency' = HarmonicProblemInit(f)._frequency
        /\ frequency_error' = HarmonicProblemInit(f).err
    /\ frequency_before' = frequency
    /\ frequency_calls' = frequency_calls + 1
    /\ UNCHANGED <<frame_others, frame_check, frame_monitors>>

\* problem.frequency = f
SetFrequency ==
    /\ frequency # None
    /\ frequency_calls < MaxCalls
    /\ \E f \in Frequencies :
        /\ frequency_arg' = Some(f)
        /\ frequency' = FrequencySetter(frequency, f)._frequency
        /\ frequency_error' = FrequencySetter(frequency, f).err
    /\ frequency_before' = frequency
    /\ frequency_calls' = frequency_calls + 1
    /\ UNCHANGED <<frame_others, frame_check, frame_monitors>>

HarmonicNext ==
    \/ Construct
    \/ SetFrequency

HarmonicSpec == HarmonicInit /\ [][HarmonicNext]_vars

(***************************************************************************)
(* What the properties below speak about.                                  *)
(***************************************************************************)
\* the kinds the classification lists at least one condition of
Listed(kind) == \E i \in 1..Len(boundary_conditions) : boundary_conditions[i].kind = kind

\* the IDs of the Dirichlet conditions, in iteration order
DirichletKeys == bc_by_type["dirichlet"]

\* the nodes a Dirichlet condition claims, before intersection resolution
ClaimedNodes(id) ==
    UNION {DirichletNodesOfRegi(r) : r \in boundary_conditions[id].regs}

\* the nodes claimed by at least one Dirichlet condition
FixedNodes == UNION {ClaimedNodes(id) : id \in Range(DirichletKeys)}

\* the first Dirichlet condition, in iteration order, that claims node n
Winner(n) ==
    DirichletKeys[CHOOSE k \in 1..Len(DirichletKeys) :
                      /\ n \in ClaimedNodes(DirichletKeys[k])
                      /\ \A j \in 1..(k - 1) : n \notin ClaimedNodes(DirichletKeys[j])]

\* the value condition id prescribes for node n, one of the nodes it claims
Prescribed(id, n) ==
    IF boundary_conditions[id].vkind = "array"
    THEN boundary_conditions[id].array[
             Cardinality({m \in ClaimedNodes(id) : m < n}) + 1]
    ELSE boundary_conditions[id].value

\* the nodes that stay with the k-th Dirichlet condition: those it claims
\* and no earlier condition claims
RemainingNodes(k) ==
    SortedSeq(ClaimedNodes(DirichletKeys[k])
              \ UNION {ClaimedNodes(DirichletKeys[j]) : j \in 1..(k - 1)})

\* the number of Lagrange multipliers of the problem: one per node pair of
\* a binary condition, one per node but the master of a floating condition
NumMultipliers ==
    SumSeq([i \in 1..Len(boundary_conditions) |->
        IF boundary_conditions[i].kind = "binary"
        THEN Len(boundary_conditions[i].primary_nodes)
        ELSE IF boundary_conditions[i].kind = "floating"
        THEN Cardinality(UNION {FloatingNodesOfRegi(r) :
                                r \in boundary_conditions[i].regs}) - 1
        ELSE 0])

\* shrink has returned
Shrunk == shrink_out # None

\* shrink was ended by an exception
ShrinkFailed == pc = "failed" \/ (pc \in {"recomputed", "recompute_failed"} /\ ~Shrunk)

\* the number of steps of shrink that are decided
StepsDecided ==
    CASE pc = "neumann" -> 0
      [] pc = "robin" -> 1
      [] pc = "binary" -> 2
      [] pc = "floating" -> 3
      [] pc = "dirichlet" -> 4
      [] OTHER -> 5

\* the listed kinds among the first n kinds of the fixed order
ListedAmong(n) == SelectSeq(SubSeq(Kinds, 1, n), Listed)

(***************************************************************************)
(* C1: in every call of shrink the steps run in the fixed order neumann,   *)
(* robin, binary, floating, dirichlet, and a step runs iff its kind is     *)
(* listed: at every point of a call the steps run so far are exactly the   *)
(* listed kinds among those decided, in that order; a call ended by the    *)
(* exception of a step has run the listed kinds up to that step.           *)
(***************************************************************************)
C1_StepOrder ==
    /\ ~ShrinkFailed => steps = ListedAmong(StepsDecided)
    /\ ShrinkFailed =>
          /\ steps # <<>>
          /\ \E n \in 1..Len(Kinds) :
                /\ Kinds[n] = steps[Len(steps)]
                /\ steps = ListedAmong(n)

C1_Witness ==
    /\ pc = "shrunk"
    /\ steps = <<"binary", "floating", "dirichlet">>

(***************************************************************************)
(* C2: the system shrink returns has size M = N - D + L, with D the number *)
(* of distinct nodes claimed by Dirichlet conditions and L the number of   *)
(* binary and floating multipliers.                                        *)
(***************************************************************************)
C2_ReducedSize ==
    Shrunk =>
        LET M == NumNodes - Cardinality(FixedNodes) + NumMultipliers
        IN  /\ Len(shrink_out[1].matrix) = M
            /\ \A i \in 1..M : Len(shrink_out[1].matrix[i]) = M
            /\ Len(shrink_out[1].rhs) = M

\* two Dirichlet conditions claim a common node, and there are multipliers
C2_Witness ==
    /\ Shrunk
    /\ NumMultipliers > 0
    /\ \E a, b \in Range(DirichletKeys) :
          a # b /\ ClaimedNodes(a) \cap ClaimedNodes(b) # {}

(***************************************************************************)
(* C3: inflate with the support data of shrink returns, at every           *)
(* Dirichlet-fixed node, the value the winning condition prescribes.       *)
(***************************************************************************)
C3_DirichletValues ==
    (pc = "inflated" /\ sd_mode = "given") =>
        \A n \in FixedNodes :
            /\ n + 1 <= Len(inflate_out[1])
            /\ inflate_out[1][n + 1] = Prescribed(Winner(n), n)

\* binary, floating and Dirichlet conditions together
C3_Witness ==
    /\ pc = "inflated"
    /\ sd_mode = "given"
    /\ Listed("binary") /\ Listed("floating")
    /\ FixedNodes # {}

(***************************************************************************)
(* C4: inflate with the support data of shrink returns a vector of length  *)
(* N; a free node holds the entry of the reduced solution at its rank      *)
(* among the free indices; what is dropped are the                         *)
(* num_lagrange_mul_floating + num_lagrange_mul_binary multiplier entries; *)
(* without boundary conditions the result is the reduced solution.         *)
(***************************************************************************)
C4_InflateLength ==
    (pc = "inflated" /\ sd_mode = "given") =>
        /\ Len(inflate_out[1]) = NumNodes
        /\ \A i \in Nodes \ FixedNodes :
              inflate_out[1][i + 1] =
                  solution[Cardinality({m \in Nodes \ FixedNodes : m < i}) + 1]
        /\ Len(solution) + Cardinality(FixedNodes) - Len(inflate_out[1])
              = shrink_out[1].support_data["num_lagrange_mul_floating"]
                + shrink_out[1].support_data["num_lagrange_mul_binary"]
        /\ boundary_conditions = <<>> => inflate_out[1] = solution

\* multipliers are dropped and a free node lies behind a fixed one
C4_Witness ==
    /\ pc = "inflated"
    /\ sd_mode = "given"
    /\ Len(solution) + Cardinality(FixedNodes) > NumNodes
    /\ \E i \in Nodes \ FixedNodes : \E n \in FixedNodes : n < i

(***************************************************************************)
(* C5: when Dirichlet conditions overlap, a node stays with the first      *)
(* condition that claims it: every condition keeps exactly the nodes no    *)
(* earlier condition claims (the union of all earlier ones), with the      *)
(* values it prescribes for them.                                          *)
(***************************************************************************)
C5_FirstWins ==
    ind_on_dir # None =>
        /\ ind_on_dir[1] =
              Concatenate([k \in 1..Len(DirichletKeys) |-> RemainingNodes(k)])
        /\ val_on_dir[1] =
              Concatenate([k \in 1..Len(DirichletKeys) |->
                  [j \in 1..Len(RemainingNodes(k)) |->
                      Prescribed(DirichletKeys[k], RemainingNodes(k)[j])]])

\* a node claimed by the first and the third condition, not by the second
C5_Witness ==
    /\ ind_on_dir # None
    /\ Len(DirichletKeys) = 3
    /\ \E n \in Nodes :
          /\ n \in ClaimedNodes(DirichletKeys[1])
          /\ n \notin ClaimedNodes(DirichletKeys[2])
          /\ n \in ClaimedNodes(DirichletKeys[3])

(***************************************************************************)
(* C6: compute_support_data, called with the size of the reduced system,   *)
(* returns the support data shrink returned, for every mix of conditions,  *)
(* several binary conditions with different numbers of node pairs          *)
(* included.                                                               *)
(***************************************************************************)
C6_SameSupportData ==
    (Shrunk /\ pc \in {"recomputed", "recompute_failed"}) =>
        csd_out = Some(shrink_out[1].support_data)

\* two binary conditions with different numbers of node pairs
RaggedBinary ==
    \E a, b \in Range(bc_by_type["binary"]) :
        Len(boundary_conditions[a].primary_nodes)
            # Len(boundary_conditions[b].primary_nodes)

(***************************************************************************)
(* C7: a step whose kind has no condition leaves the matrix and the right- *)
(* hand side as they are; without boundary conditions shrink does not      *)
(* fail and returns the input matrix and right-hand side, an empty array   *)
(* of fixed indices and the multiplier count 0.                            *)
(***************************************************************************)
C7_SkippedSteps ==
    /\ [][(pc \in Range(Kinds) /\ ~Listed(pc)) => (matrix' = matrix /\ rhs' = rhs)]_vars
    /\ [](boundary_conditions = <<>> =>
            /\ pc # "failed"
            /\ Shrunk =>
                  /\ shrink_out[1].matrix = matrix_in
                  /\ shrink_out[1].rhs = rhs_in
                  /\ shrink_out[1].indices_not_dof = <<>>
                  /\ shrink_out[1].num_lagrange_mul = 0)

C7_Witness ==
    /\ boundary_conditions = <<>>
    /\ pc = "shrunk"
    /\ steps = <<>>

(***************************************************************************)
(* C8: inflate called without support data, with an empty dictionary or    *)
(* with a dictionary that lacks a required key does not fail and returns   *)
(* the vector it returns with the support data of shrink.                  *)
(***************************************************************************)
C8_RecomputedSupportData ==
    (pc \in {"inflated", "inflate_failed"} /\ sd_mode # "given") =>
        /\ pc = "inflated"
        /\ inflate_out =
              Some(Inflate(solution, boundary_conditions,
                           Some(shrink_out[1].support_data)).out)

(***************************************************************************)
(* C9: with a Dirichlet condition whose array value has another length     *)
(* than the number of nodes attached to it, shrink and                     *)
(* compute_support_data both fail and return nothing.                      *)
(***************************************************************************)
HasMismatch ==
    \E id \in Range(DirichletKeys) :
        /\ boundary_conditions[id].vkind = "array"
        /\ Len(boundary_conditions[id].array)
              # Len(DirichletNodesOfKey(boundary_conditions[id]))

C9_SizeMismatchFails ==
    HasMismatch =>
        /\ ~Shrunk
        /\ csd_out = None
        /\ pc \notin {"return", "shrunk", "recomputed", "inflated", "inflate_failed"}
        /\ pc \in {"failed", "recompute_failed"} => error # "none"

\* shrink has failed and compute_support_data after it as well
C9_Witness ==
    /\ HasMismatch
    /\ pc = "recompute_failed"
    /\ steps # <<>> /\ steps[Len(steps)] = "dirichlet"

(***************************************************************************)
(* C10: with a Dirichlet condition whose constant value is neither a       *)
(* scalar nor an array no index or value data are produced for any         *)
(* condition and nothing is returned; the Dirichlet step ends with the     *)
(* error "Type not supported" when that condition is the first one, in     *)
(* iteration order, that raises.                                           *)
(***************************************************************************)
HasUnsupported ==
    \E id \in Range(DirichletKeys) : boundary_conditions[id].vkind = "unsupported"

\* the Dirichlet condition raises in the loop over the keys
Raises(id) ==
    \/ \A r \in boundary_conditions[id].regs : ~DirichletRegiHandled(r)
    \/ boundary_conditions[id].vkind \in {"unsupported", "other"}
    \/ /\ boundary_conditions[id].vkind = "array"
       /\ Len(boundary_conditions[id].array)
             # Len(DirichletNodesOfKey(boundary_conditions[id]))

\* the first Dirichlet condition that raises has a value of an unsupported type
UnsupportedRaisesFirst ==
    \E k \in 1..Len(DirichletKeys) :
        /\ boundary_conditions[DirichletKeys[k]].vkind = "unsupported"
        /\ \E r \in boundary_conditions[DirichletKeys[k]].regs : DirichletRegiHandled(r)
        /\ \A j \in 1..(k - 1) : ~Raises(DirichletKeys[j])

C10_UnsupportedTypeFails ==
    HasUnsupported =>
        /\ ~Shrunk
        /\ ind_on_dir = None /\ val_on_dir = None /\ ind_not_on_dir = None
        /\ csd_out = None
        /\ pc \notin {"return", "shrunk", "recomputed", "inflated", "inflate_failed"}
        /\ (pc = "failed" /\ steps[Len(steps)] = "dirichlet" /\ UnsupportedRaisesFirst)
              => error = "TypeNotSupported"

\* a condition with a good value before the one with the unsupported value
C10_Witness ==
    /\ pc = "failed"
    /\ error = "TypeNotSupported"
    /\ Len(DirichletKeys) >= 2
    /\ boundary_conditions[DirichletKeys[1]].vkind = "scalar"

(***************************************************************************)
(* C11, as the spec states it: every index of the fixed-index set and of   *)
(* the free-index set of the Dirichlet step is smaller than N, also when   *)
(* binary or floating conditions have appended multiplier rows.            *)
(***************************************************************************)
C11_AllBelowN ==
    ind_on_dir # None =>
        /\ \A b \in 1..Len(ind_on_dir[1]) : ind_on_dir[1][b] < NumNodes
        /\ \A a \in 1..Len(ind_not_on_dir[1]) : ind_not_on_dir[1][a] < NumNodes

(***************************************************************************)
(* C11, amended: the fixed indices are node numbers, all smaller than N;   *)
(* the free-index set is the complement of the fixed set in the indices    *)
(* 0..N+L-1 of the augmented system, so it holds the free nodes under      *)
(* their node numbers and every multiplier index N..N+L-1; the support     *)
(* data of shrink stores these two arrays.                                 *)
(***************************************************************************)
C11_IndexSpaces ==
    ind_on_dir # None =>
        /\ Range(ind_on_dir[1]) \subseteq Nodes
        /\ ind_not_on_dir[1] =
              SortedSeq((0..(NumNodes + NumMultipliers - 1)) \ Range(ind_on_dir[1]))
        /\ Shrunk =>
              /\ shrink_out[1].support_data["indices_on_dirichlet"] = ind_on_dir
              /\ shrink_out[1].support_data["indices_not_on_dirichlet"] = ind_not_on_dir

\* multiplier rows were appended before the elimination
C11_Witness ==
    /\ Shrunk
    /\ ind_on_dir # None
    /\ NumMultipliers > 0
    /\ \E a \in 1..Len(ind_not_on_dir[1]) : ind_not_on_dir[1][a] >= NumNodes

(***************************************************************************)
(* C12: for the same mesh, regions and list of region IDs the node set     *)
(* resolved for a floating condition is the node set resolved for a        *)
(* Dirichlet condition, for regions of dimension 0, 1, 2 and 3.            *)
(***************************************************************************)
\* what _calc_values_for_dirichlet resolves for a list of region IDs
DirichletResolution(regs) ==
    IF \A r \in regs : ~DirichletRegiHandled(r)
    THEN [err |-> "ConcatenateError", idx |-> <<>>]
    ELSE [err |-> "none", idx |-> DirichletNodesOfKey([regs |-> regs])]

C12_SameNodeSets ==
    \A i \in 1..Len(boundary_conditions) :
        (boundary_conditions[i].kind = "floating" /\ pc # "neumann") =>
            FloatingOfKey(boundary_conditions[i])
                = DirichletResolution(boundary_conditions[i].regs)

(***************************************************************************)
(* C13, as the spec states it: solve_linear_system called, on a matrix and *)
(* rhs it accepts, with a solver argument that is not a callable, not the  *)
(* direct sparse solve, not one of the iterative methods and not 'pardiso' *)
(* fails with SolverUnknownError, returns no solution and invokes no       *)
(* solver.                                                                 *)
(***************************************************************************)
Called == solve_out # None \/ solve_error # "none"

Recognised(s) == s \in {"<callable>", "spsolve", "pardiso"} \cup iteratiev_solvers

C13_UnknownSelectorFails ==
    (Called /\ rhs_type \in {"spmatrix", "ndarray"} /\ solver # "<None>"
     /\ ~Recognised(solver)) =>
        /\ solve_error = "SolverUnknownError"
        /\ solve_out = None
        /\ invoked = "none"

(***************************************************************************)
(* C13, amended: with a matrix and a rhs of an accepted type, a solver     *)
(* argument that is not empty and not recognised fails with                *)
(* SolverUnknownError, returns no solution and invokes no solver; the      *)
(* empty string is taken like None and selects the direct sparse solve; a  *)
(* rhs of another type fails with ValueError before the solver argument    *)
(* is looked at.                                                           *)
(***************************************************************************)
C13_UnknownSelector ==
    (Called /\ ~Recognised(solver)) =>
        /\ (rhs_type \in {"spmatrix", "ndarray"} /\ ~Falsy(solver)) =>
              /\ solve_error = "SolverUnknownError"
              /\ solve_out = None
              /\ invoked = "none"
        /\ (rhs_type \in {"spmatrix", "ndarray"} /\ Falsy(solver)) =>
              /\ solve_error = "none"
              /\ solve_out = Some([by |-> "spsolve", complex |-> is_complex])
              /\ invoked = "spsolve"
        /\ rhs_type \notin {"spmatrix", "ndarray"} =>
              /\ solve_error = "ValueError"
              /\ solve_out = None
              /\ invoked = "none"

C13_Witness ==
    /\ solver = "lu"
    /\ rhs_type = "ndarray"
    /\ solve_error = "SolverUnknownError"

(***************************************************************************)
(* C14: when pypardiso is not installed, every call of solve_linear_system *)
(* that selects 'pardiso' fails with an error, for real and for complex    *)
(* systems, and returns no solution of any solver.                         *)
(***************************************************************************)
C14_PardisoUnavailable ==
    (Called /\ ~flag_pypardiso /\ solver = "pardiso") =>
        /\ solve_error # "none"
        /\ solve_out = None
        /\ invoked = "none"

\* a complex system, handed to 'pardiso' without the package
C14_Witness ==
    /\ ~flag_pypardiso
    /\ solver = "pardiso"
    /\ is_complex
    /\ rhs_type = "spmatrix"
    /\ solve_error = "ImportError"

(***************************************************************************)
(* C15: Problem.load applied to the path Problem.save returned restores a  *)
(* problem whose attributes equal those of the saved object: every         *)
(* attribute not named in ignore_attributes is there with its value, no    *)
(* other attribute is there, and the named instance attributes are not     *)
(* stored; save and load resolve the same '.pkl' file for the same path    *)
(* argument, and load resolves the path save returned to itself.           *)
(***************************************************************************)
\* the attributes an object with the instance attributes obj has
AttributesOf(obj) == DOMAIN obj \cup DOMAIN ClassAttributes

AttributeValue(obj, a) == IF a \in DOMAIN obj THEN obj[a] ELSE ClassAttributes[a]

\* the last load read the file the last save wrote and returned
LoadedSaved ==
    /\ save_out # None
    /\ load_out # None
    /\ load_file = save_out

\* the loaded problem is the saved object without the named attributes
RestoredAsSaved ==
    LoadedSaved =>
        LET named == Range(IgnoreList(save_arg[1].ignore_attributes))
        IN  /\ \A a \in AttributesOf(save_before[1]) \ named :
                  /\ a \in AttributesOf(load_out[1])
                  /\ AttributeValue(load_out[1], a) = AttributeValue(save_before[1], a)
            /\ AttributesOf(load_out[1]) \subseteq AttributesOf(save_before[1])
            /\ \A a \in named : a \notin DOMAIN load_out[1]

\* save and load resolve the same file
SameFileResolved ==
    (load_arg # None /\ save_arg # None /\ save_error # "FileNotFoundError") =>
        /\ load_arg[1] = save_arg[1].path =>
              load_file = Some(WithSuffixPkl(save_arg[1].path))
        /\ (save_out # None /\ load_arg = save_out) => load_file = save_out
        /\ save_out # None => save_out = Some(WithSuffixPkl(save_arg[1].path))

\* in every call of load (a step that is not a call of save)
C15_RoundTrip ==
    [][/\ saves' = saves => RestoredAsSaved'
       /\ SameFileResolved']_vars

\* an object saved without two of its attributes and loaded from the path
\* save returned
C15_Witness ==
    /\ LoadedSaved
    /\ load_arg = save_out
    /\ save_arg[1].path.name = <<"b", "tar", "gz">>
    /\ save_arg[1].ignore_attributes = Some(<<"monitors", "mesh">>)
    /\ DOMAIN save_before[1] = {"description", "mesh", "monitors"}

(***************************************************************************)
(* C16: for every binary condition and every pair index j, shrink_binary   *)
(* adds exactly one constraint row with exactly two nonzeros, -value in    *)
(* the column of primary node j and +1 in the column of replica node j,    *)
(* and a zero rhs entry; rows of different conditions have different row   *)
(* indices.                                                                *)
(***************************************************************************)
\* the binary step of shrink has augmented the system and nothing has
\* touched it since
AfterBinary == pc = "floating" /\ Listed("binary")

BinaryKeys == bc_by_type["binary"]

\* row r of the system is the constraint row of pair j of the condition bc
IsBinaryRow(bc, j, r) ==
    /\ \A c \in 1..Len(matrix[r]) :
          matrix[r][c] = (IF c - 1 = bc.primary_nodes[j] THEN -bc.value
                          ELSE IF c - 1 = bc.replica_nodes[j] THEN 1
                          ELSE 0)
    /\ Cardinality({c \in 1..Len(matrix[r]) : matrix[r][c] # 0}) = 2
    /\ rhs[r] = 0

\* the rows added to the system of the mesh that are the row of pair j of
\* the condition with ID key
BinaryRowsOf(key, j) ==
    {r \in (NumNodes + 1)..Len(matrix) : IsBinaryRow(boundary_conditions[key], j, r)}

BinaryPairs ==
    {<<key, j>> : key \in Range(BinaryKeys), j \in 1..(NumNodes \div 2)}
        \cap {p \in Nat \X Nat : p[2] <= Len(boundary_conditions[p[1]].primary_nodes)}

C16_BinaryRows ==
    AfterBinary =>
        /\ \A p \in BinaryPairs : Cardinality(BinaryRowsOf(p[1], p[2])) = 1
        /\ \A p, q \in BinaryPairs :
              p # q => BinaryRowsOf(p[1], p[2]) \cap BinaryRowsOf(q[1], q[2]) = {}

\* two binary conditions, one of them with two pairs
C16_Witness ==
    /\ AfterBinary
    /\ Len(BinaryKeys) = 2
    /\ Cardinality(BinaryPairs) = 3

(***************************************************************************)
(* C17: shrink_binary grows the matrix by the sum over the binary          *)
(* conditions of len(primary_nodes) rows and as many columns, grows the    *)
(* rhs by as many entries, and returns that number as the number of added  *)
(* multipliers.                                                            *)
(***************************************************************************)
\* the sum over the binary conditions of len(primary_nodes)
BinaryPairCount ==
    SumSeq([k \in 1..Len(BinaryKeys) |->
               Len(boundary_conditions[BinaryKeys[k]].primary_nodes)])

\* the system is square of size n with a rhs of n entries
SystemOfSize(n) ==
    /\ Len(matrix) = n
    /\ \A r \in 1..Len(matrix) : Len(matrix[r]) = n
    /\ Len(rhs) = n

C17_BinaryGrowth ==
    /\ pc = "binary" => SystemOfSize(Len(matrix_in))
    /\ AfterBinary =>
          /\ SystemOfSize(Len(matrix_in) + BinaryPairCount)
          /\ num_lagrange_mul_binary = BinaryPairCount

\* three binary conditions with four pairs between them
C17_Witness ==
    /\ AfterBinary
    /\ Len(BinaryKeys) = 3
    /\ BinaryPairCount = 4
    /\ num_lagrange_mul_binary = 4

(***************************************************************************)
(* C18: shrink_binary and shrink_floating augment symmetrically: the       *)
(* result has the unchanged input matrix as top-left block, the constraint *)
(* block B below it, the transpose of B to its right and an all-zero block *)
(* bottom-right, and the rhs is the input rhs followed by zeros; a         *)
(* symmetric input matrix gives a symmetric augmented matrix.              *)
(***************************************************************************)
IsSymmetric(m) == \A i, j \in 1..Len(m) : m[i][j] = m[j][i]

\* m2, r2 is m, r augmented by at least one constraint row
IsAugmented(m, r, m2, r2) ==
    /\ Len(m2) > Len(m)
    /\ \A i \in 1..Len(m2) : Len(m2[i]) = Len(m2)
    /\ \A i, j \in 1..Len(m) : m2[i][j] = m[i][j]
    /\ \A i \in 1..Len(m) : \A j \in (Len(m) + 1)..Len(m2) : m2[i][j] = m2[j][i]
    /\ \A i, j \in (Len(m) + 1)..Len(m2) : m2[i][j] = 0
    /\ \A i \in (Len(m) + 1)..Len(m2) : \E j \in 1..Len(m) : m2[i][j] # 0
    /\ Len(r2) = Len(m2)
    /\ \A i \in 1..Len(r) : r2[i] = r[i]
    /\ \A i \in (Len(r) + 1)..Len(r2) : r2[i] = 0

\* a step of shrink in which shrink_binary or shrink_floating returned
AugmentingStep ==
    \/ pc = "binary" /\ StepRuns("binary") /\ pc' = NextStep("binary")
    \/ pc = "floating" /\ StepRuns("floating") /\ pc' = NextStep("floating")

C18_SymmetricAugmentation ==
    [][AugmentingStep =>
          /\ IsAugmented(matrix, rhs, matrix', rhs')
          /\ IsSymmetric(matrix) => IsSymmetric(matrix')]_vars

\* a symmetric system augmented by both steps
C18_Witness ==
    /\ pc = "dirichlet"
    /\ steps = <<"robin", "binary", "floating">>
    /\ IsSymmetric(matrix_in)
    /\ IsSymmetric(matrix)
    /\ Len(matrix) = Len(matrix_in) + num_lagrange_mul_binary + num_lagrange_mul_floating
    /\ num_lagrange_mul_binary > 0
    /\ num_lagrange_mul_floating > 0

(***************************************************************************)
(* C19: for every floating condition with node set S, shrink_floating      *)
(* takes the last node of S as master and adds, for each other node s of   *)
(* S, exactly one row with +1 in column s, -1 in the master column and a   *)
(* zero rhs entry; the number of rows added is the sum over the conditions *)
(* of |S| - 1, and inflate drops exactly that many trailing entries for    *)
(* floating conditions.                                                    *)
(***************************************************************************)
\* the floating step of shrink has augmented the system and nothing has
\* touched it since
AfterFloating == pc = "dirichlet" /\ Listed("floating")

FloatingKeys == bc_by_type["floating"]

\* the node set of the floating condition with ID key, as the floating
\* resolution finds it
FloatingNodeSet(key) ==
    UNION {FloatingNodesOfRegi(r) : r \in boundary_conditions[key].regs}

\* the sum over the floating conditions before position k of |S| - 1
RECURSIVE FloatingRowsBefore(_)
FloatingRowsBefore(k) ==
    IF k <= 1 THEN 0
    ELSE FloatingRowsBefore(k - 1) + Cardinality(FloatingNodeSet(FloatingKeys[k - 1])) - 1

FloatingRowCount == FloatingRowsBefore(Len(FloatingKeys) + 1)

\* row r of the system ties node s to the node master
IsFloatingRow(s, master, r) ==
    /\ \A c \in 1..Len(matrix[r]) :
          matrix[r][c] = (IF c - 1 = s THEN 1 ELSE IF c - 1 = master THEN -1 ELSE 0)
    /\ rhs[r] = 0

\* the rows the floating step added for the condition at position k
FloatingRowsOf(k) ==
    {Len(matrix_in) + num_lagrange_mul_binary + FloatingRowsBefore(k) + j :
        j \in 1..(Cardinality(FloatingNodeSet(FloatingKeys[k])) - 1)}

C19_FloatingRows ==
    /\ AfterFloating =>
          /\ num_lagrange_mul_floating = FloatingRowCount
          /\ Len(matrix) = Len(matrix_in) + num_lagrange_mul_binary + FloatingRowCount
          /\ Len(rhs) = Len(matrix)
          /\ \A k \in 1..Len(FloatingKeys) :
                \A s \in FloatingNodeSet(FloatingKeys[k])
                            \ {Max(FloatingNodeSet(FloatingKeys[k]))} :
                   Cardinality({r \in FloatingRowsOf(k) :
                       IsFloatingRow(s, Max(FloatingNodeSet(FloatingKeys[k])), r)}) = 1
    /\ (pc = "inflated" /\ Listed("floating") /\ ~Listed("binary") /\ ~Listed("dirichlet")) =>
          /\ Len(solution) = Len(matrix_in) + FloatingRowCount
          /\ inflate_out = Some(SubSeq(solution, 1, Len(solution) - FloatingRowCount))

\* two floating conditions that share a node, after a binary step
C19_Witness ==
    /\ AfterFloating
    /\ Len(FloatingKeys) = 2
    /\ FloatingNodeSet(FloatingKeys[1]) \cap FloatingNodeSet(FloatingKeys[2]) # {}
    /\ num_lagrange_mul_binary > 0
    /\ num_lagrange_mul_floating = 3

(***************************************************************************)
(* C20: shrink_dirichlet returns matrix[free, free] and                    *)
(* rhs[free] - matrix[free, fixed] * values_fixed, where values_fixed is   *)
(* ordered like the sequence of fixed indices (condition order, ascending  *)
(* node index within a condition).                                         *)
(***************************************************************************)
\* a step of shrink in which shrink_dirichlet returned
DirichletStep ==
    pc = "dirichlet" /\ StepRuns("dirichlet") /\ pc' = NextStep("dirichlet")

\* the fixed indices: condition by condition, ascending within a condition
FixedSequence == Concatenate([k \in 1..Len(DirichletKeys) |-> RemainingNodes(k)])

\* m2, r2 is the system m, r with the indices fixed eliminated at values
IsEliminated(m, r, m2, r2, free, fixed, values) ==
    /\ Len(m2) = Len(free)
    /\ \A a \in 1..Len(free) :
          /\ Len(m2[a]) = Len(free)
          /\ \A b \in 1..Len(free) : m2[a][b] = m[free[a] + 1][free[b] + 1]
    /\ Len(r2) = Len(free)
    /\ \A a \in 1..Len(free) :
          r2[a] = r[free[a] + 1]
                  - SumSeq([b \in 1..Len(fixed) |-> m[free[a] + 1][fixed[b] + 1] * values[b]])

C20_Elimination ==
    [][DirichletStep =>
          /\ ind_on_dir' = Some(FixedSequence)
          /\ Len(val_on_dir'[1]) = Len(FixedSequence)
          /\ \A b \in 1..Len(FixedSequence) :
                val_on_dir'[1][b] = Prescribed(Winner(FixedSequence[b]), FixedSequence[b])
          /\ ind_not_on_dir' =
                Some(SortedSeq((0..(Len(matrix) - 1)) \ Range(FixedSequence)))
          /\ IsEliminated(matrix, rhs, matrix', rhs', ind_not_on_dir'[1],
                          ind_on_dir'[1], val_on_dir'[1])]_vars

\* two Dirichlet conditions, the second with an array of values, eliminated
\* from a system with multipliers
C20_Witness ==
    /\ pc = "return"
    /\ Len(DirichletKeys) = 2
    /\ boundary_conditions[DirichletKeys[2]].vkind = "array"
    /\ Len(ind_on_dir[1]) >= 3
    /\ num_lagrange_mul_binary > 0
    /\ Len(matrix) = Len(matrix_in) + num_lagrange_mul_binary - Len(ind_on_dir[1])

(***************************************************************************)
(* C21: the node set resolved for a Dirichlet condition is the union, over *)
(* its regions, of the nodes tagged with the region (dimension 0), the     *)
(* nodes of the edges tagged with it (dimension 1), the nodes of the       *)
(* elements tagged with it (dimension 2) and the nodes of the volume       *)
(* elements tagged with it (dimension 3), without duplicates.              *)
(***************************************************************************)
\* the nodes of a region, by its dimension
NodesOfRegion(regi) ==
    CASE RegiDim(regi) = 0 -> TaggedNodesOfRegi(regi)
      [] RegiDim(regi) = 1 -> EdgeNodesOfRegi(regi)
      [] RegiDim(regi) = 2 -> ElemNodesOfRegi(regi)
      [] RegiDim(regi) = 3 -> ElemNodesOfRegi(regi)

C21_ResolvedNodeSet ==
    \A i \in 1..Len(boundary_conditions) :
        (boundary_conditions[i].kind = "dirichlet" /\ "dirichlet" \in Range(steps)) =>
            DirichletResolution(boundary_conditions[i].regs)
                = [err |-> "none",
                   idx |-> SortedSeq(UNION {NodesOfRegion(r) :
                                            r \in boundary_conditions[i].regs})]

(***************************************************************************)
(* C22: the Neumann and Robin steps never change the size of the system:   *)
(* shrink_neumann returns rhs + q and does not touch the matrix,           *)
(* shrink_robin returns (matrix + S, rhs + q), and after either step the   *)
(* matrix dimension and the rhs length are those of the input.             *)
(***************************************************************************)
\* the load vector the steps decided so far have added to the rhs
AddedLoad(i) ==
    (IF Listed("neumann") THEN NeumannTerm(boundary_conditions)[i] ELSE 0)
    + (IF pc = "binary" /\ Listed("robin") THEN RobinTerms(boundary_conditions).q[i] ELSE 0)

\* the matrix the steps decided so far have added to the matrix
AddedMatrix(i, j) ==
    IF pc = "binary" /\ Listed("robin") THEN RobinTerms(boundary_conditions).S[i][j] ELSE 0

C22_NeumannRobinKeepSize ==
    pc \in {"robin", "binary"} =>
        /\ Len(matrix) = Len(matrix_in)
        /\ Len(rhs) = Len(rhs_in)
        /\ \A i \in 1..Len(matrix) :
              /\ Len(matrix[i]) = Len(matrix_in[i])
              /\ \A j \in 1..Len(matrix[i]) :
                    matrix[i][j] = matrix_in[i][j] + AddedMatrix(i, j)
        /\ \A i \in 1..Len(rhs) : rhs[i] = rhs_in[i] + AddedLoad(i)

\* both steps have run and have changed the system
C22_Witness ==
    /\ pc = "binary"
    /\ steps = <<"neumann", "robin">>
    /\ matrix # matrix_in
    /\ \E i \in 1..Len(rhs) : rhs[i] = rhs_in[i] + 4
    /\ Len(matrix) = NumNodes

(***************************************************************************)
(* C23, as the spec states it: consistency_check never fails because a     *)
(* region references a material, boundary condition or excitation ID that  *)
(* does not exist; each missing reference is reported as a warning and the *)
(* check continues with the remaining references of the region and with    *)
(* the remaining regions.                                                  *)
(***************************************************************************)
\* a reference to an ID its container does not hold; with_zero tells
\* whether a reference to the ID 0 counts as a reference
IsMissing(ref, ids, with_zero) ==
    /\ ref # None
    /\ with_zero \/ ref[1] # 0
    /\ ref[1] \notin ids

\* the warnings for the missing references of a region, in the order
\* material, boundary condition, excitation
WarningsOf(region, with_zero) ==
    (IF IsMissing(region.mat, containers.mat, with_zero)
     THEN << <<"material", region.mat[1]>> >> ELSE <<>>)
    \o (IF IsMissing(region.bc, containers.bc, with_zero)
        THEN << <<"boundary condition", region.bc[1]>> >> ELSE <<>>)
    \o (IF IsMissing(region.exci, containers.exci, with_zero)
        THEN << <<"excitation", region.exci[1]>> >> ELSE <<>>)

\* the warnings for the first n regions
RECURSIVE WarningsUpTo(_, _)
WarningsUpTo(n, with_zero) ==
    IF n = 0 THEN <<>>
    ELSE WarningsUpTo(n - 1, with_zero) \o WarningsOf(regions[n], with_zero)

\* the regions the loop of consistency_check has dealt with
RegionsChecked ==
    IF check_pos <= 0 THEN 0
    ELSE IF check_pos > Len(regions) THEN Len(regions)
    ELSE check_pos - 1

C23_EveryMissingReported ==
    /\ check_error = "none"
    /\ check_pos >= 0
    /\ warnings = WarningsUpTo(RegionsChecked, TRUE)

(***************************************************************************)
(* C23, amended: consistency_check never fails because a region references *)
(* an ID that does not exist; each missing reference with an ID other than *)
(* 0 is reported as a warning, in the order of the regions and, within a   *)
(* region, material, boundary condition, excitation; a reference with the  *)
(* ID 0 is taken as no reference and is not looked up; the check goes      *)
(* through all references of all regions.                                  *)
(***************************************************************************)
C23_MissingReported ==
    /\ check_error = "none"
    /\ check_pos >= 0
    /\ warnings = WarningsUpTo(RegionsChecked, FALSE)

\* the check has returned after three missing references in the first
\* region and one in the second
C23_Witness ==
    /\ check_pos = Len(regions) + 2
    /\ Len(regions) = 2
    /\ Len(WarningsOf(regions[1], FALSE)) = 3
    /\ Len(warnings) = 4

(***************************************************************************)
(* C24: shrink and inflate keep no state between calls and do not modify   *)
(* their inputs: the caller's matrix, rhs, reduced solution and support    *)
(* data are unchanged after every call, the vector inflate returns is      *)
(* never the caller's solution array itself, and the outputs are a         *)
(* function of the inputs.                                                 *)
(***************************************************************************)
\* what the caller owns: the arguments of shrink and inflate, the shape
\* function object
CallerObjects == {"matrix", "rhs", "solution", "support_data", "problem", "self"}

\* nothing the caller owns has been written in place, and the vector inflate
\* returned does not use the memory of the caller's solution
NoSharedMemory ==
    /\ written \cap CallerObjects = {}
    /\ inflate_base \notin CallerObjects

\* every entry of the vector inflate returned was written: none of them is
\* what the memory of np.empty happened to hold
OutputsDetermined ==
    inflate_out # None => Uninitialized \notin Range(inflate_out[1])

Returned == shrink_out[1]

C25_SupportDataComplete ==
    shrink_out # None =>
        /\ DOMAIN Returned.support_data = RequiredKeys
        /\ SupportDataUsable(Some(Returned.support_data))
        /\ Returned.num_lagrange_mul =
              Returned.support_data["num_lagrange_mul_binary"]
              + Returned.support_data["num_lagrange_mul_floating"]
        /\ Returned.support_data["num_lagrange_mul_binary"] = num_lagrange_mul_binary
        /\ Returned.support_data["num_lagrange_mul_floating"] = num_lagrange_mul_floating
        /\ BinaryKeys = <<>> => Returned.support_data["num_lagrange_mul_binary"] = 0
        /\ FloatingKeys = <<>> => Returned.support_data["num_lagrange_mul_floating"] = 0
        /\ IF DirichletKeys # <<>>
           THEN /\ Returned.indices_not_dof = FixedSequence
                /\ Returned.support_data["indices_on_dirichlet"] = Some(FixedSequence)
           ELSE /\ Returned.indices_not_dof = <<>>
                /\ Returned.support_data["indices_on_dirichlet"] = None
                /\ Returned.support_data["indices_not_on_dirichlet"] = None
                /\ Returned.support_data["values_on_dirichlet"] = None

\* shrink has returned for a problem with floating conditions only: no
\* binary multipliers, no Dirichlet data, and inflate has used the dictionary
C25_Witness ==
    /\ pc = "inflated"
    /\ sd_mode = "given"
    /\ DirichletKeys = <<>>
    /\ BinaryKeys = <<>>
    /\ Returned.num_lagrange_mul > 0
    /\ Returned.support_data["values_on_dirichlet"] = None
    /\ Returned.indices_not_dof = <<>>

(***************************************************************************)
(* C27: after the Dirichlet step the fixed-index sequence and the          *)
(* free-index sequence are disjoint, each without duplicates (also when    *)
(* conditions overlap), and together they are the index range 0..S-1 of    *)
(* the matrix the step received; the free-index sequence is ascending.     *)
(***************************************************************************)
\* no value at two positions of the sequence s
WithoutDuplicates(s) == \A i, j \in 1..Len(s) : s[i] = s[j] => i = j

\* strictly ascending
Ascending(s) == \A i \in 1..(Len(s) - 1) : s[i] < s[i + 1]

\* fixed and free split the index range 0..size-1
SplitsRange(fixed, free, size) ==
    /\ Range(fixed) \cap Range(free) = {}
    /\ WithoutDuplicates(fixed)
    /\ WithoutDuplicates(free)
    /\ Range(fixed) \cup Range(free) = 0..(size - 1)
    /\ Len(fixed) + Len(free) = size
    /\ Ascending(free)

C27_IndexPartition ==
    [][/\ DirichletStep =>
             /\ SplitsRange(ind_on_dir'[1], ind_not_on_dir'[1], Len(matrix))
             /\ Len(matrix) = NumNodes + num_lagrange_mul_binary
                                       + num_lagrange_mul_floating
       /\ (pc' = "recomputed" /\ Shrunk /\ DirichletKeys # <<>>) =>
             /\ SplitsRange(csd_out'[1]["indices_on_dirichlet"][1],
                            csd_out'[1]["indices_not_on_dirichlet"][1],
                            Len(Returned.matrix) + Len(Returned.indices_not_dof))
             /\ csd_out'[1]["indices_not_on_dirichlet"] = ind_not_on_dir]_vars

\* two overlapping Dirichlet conditions, eliminated from a system with
\* multiplier rows
C27_Witness ==
    /\ pc = "return"
    /\ Len(DirichletKeys) = 2
    /\ ClaimedNodes(DirichletKeys[1]) \cap ClaimedNodes(DirichletKeys[2]) # {}
    /\ Len(ind_on_dir[1]) + Len(ind_not_on_dir[1]) > NumNodes
    /\ SplitsRange(ind_on_dir[1], ind_not_on_dir[1], Len(matrix) + Len(ind_on_dir[1]))

(***************************************************************************)
(* C28: after the intersection resolution of _calc_values_for_dirichlet    *)
(* the index array and the value array of every condition have one length  *)
(* and are aligned: entry j of the value array of condition k is the value *)
(* condition k prescribes for node j of its remaining index array, also    *)
(* for arrays of values and for a condition left without nodes.            *)
(***************************************************************************)
\* the lists idx and val hold, for every condition, aligned arrays
AlignedLists(idx, val) ==
    /\ Len(idx) = Len(DirichletKeys)
    /\ Len(val) = Len(DirichletKeys)
    /\ \A k \in 1..Len(DirichletKeys) :
          /\ Len(val[k]) = Len(idx[k])
          /\ idx[k] = RemainingNodes(k)
          /\ \A j \in 1..Len(idx[k]) :
                /\ idx[k][j] \in ClaimedNodes(DirichletKeys[k])
                /\ val[k][j] = Prescribed(DirichletKeys[k], idx[k][j])

\* the outcome of _calc_values_for_dirichlet is aligned, when it returns
AlignedOutcome(c) == c.err = "none" /\ AlignedLists(c.idx, c.val)

C28_AlignedAfterResolution ==
    (ind_on_dir # None /\ pc = "return") =>
        AlignedOutcome(CalcValuesForDirichlet(boundary_conditions, DirichletKeys))

\* three conditions: the second with an array of values and cut by the
\* first, the third left without nodes
C28_Witness ==
    /\ pc = "return"
    /\ ind_on_dir # None
    /\ Len(DirichletKeys) = 3
    /\ boundary_conditions[DirichletKeys[2]].vkind = "array"
    /\ Len(RemainingNodes(2)) \in 1..(Cardinality(ClaimedNodes(DirichletKeys[2])) - 1)
    /\ Prescribed(DirichletKeys[2], RemainingNodes(2)[1]) #
          boundary_conditions[DirichletKeys[2]].array[1]
    /\ RemainingNodes(3) = <<>>
    /\ Len(ind_on_dir[1]) = Len(val_on_dir[1])

(***************************************************************************)
(* C29: save leaves the problem object as it found it: in every outcome of *)
(* the call every attribute the object had before is present afterwards    *)
(* with its previous value, the attributes named in ignore_attributes      *)
(* included, and a name the object does not have adds no attribute.        *)
(***************************************************************************)
\* the object has the attributes it had before the last call of save, with
\* their values, and no others
ObjectAsBefore ==
    /\ AttributesOf(problem_attrs) = AttributesOf(save_before[1])
    /\ \A a \in AttributesOf(save_before[1]) :
          AttributeValue(problem_attrs, a) = AttributeValue(save_before[1], a)

C29_SaveLeavesObject == save_before # None => ObjectAsBefore

(***************************************************************************)
(* C26: in _monitors_preprocessing a monitor with an integer step n >= 1   *)
(* over K >= 1 time steps gets exactly the indices 0, n, 2n, ... below K   *)
(* and the last index K - 1, ascending and without duplicates; a monitor   *)
(* without time steps gets every index 0..K-1; no monitors gives an empty  *)
(* mapping.                                                                *)
(***************************************************************************)
\* _monitors_preprocessing has been called
Preprocessed == internal_monitors # None \/ monitors_error # "none"

\* the value can be preprocessed: its step is at least 1 over at least one
\* time step, and its monitor is a function or an available name
WellFormed(monitor) ==
    /\ monitor.form = "int" => (monitor.n >= 1 /\ time_steps >= 1)
    /\ monitor.monitor \in {"<callable>"} \cup DOMAIN available_monitors

\* the multiples of n below K and the last index
StepIndexSet(K, n) == {i \in 0..(K - 1) : i % n = 0} \cup {K - 1}

C26_MonitorIndices ==
    Preprocessed =>
        /\ monitors = None => (monitors_error = "none" /\ internal_monitors = Some(<<>>))
        /\ (monitors # None /\ \A k \in 1..Len(monitors[1]) : WellFormed(monitors[1][k])) =>
              /\ monitors_error = "none"
              /\ Len(internal_monitors[1]) = Len(monitors[1])
        /\ (monitors # None /\ internal_monitors # None) =>
              \A k \in 1..Len(monitors[1]) :
                  /\ (monitors[1][k].form = "int" /\ monitors[1][k].n >= 1
                      /\ time_steps >= 1) =>
                        /\ Range(internal_monitors[1][k].indices) =
                              StepIndexSet(time_steps, monitors[1][k].n)
                        /\ Ascending(internal_monitors[1][k].indices)
                        /\ WithoutDuplicates(internal_monitors[1][k].indices)
                        /\ internal_monitors[1][k].indices[1] = 0
                        /\ internal_monitors[1][k].indices[
                               Len(internal_monitors[1][k].indices)] = time_steps - 1
                  /\ monitors[1][k].form = "plain" =>
                        internal_monitors[1][k].indices = Arange(time_steps)

\* a monitor with the step 3 over four time steps, where the last index is
\* appended, and a monitor given alone
C26_Witness ==
    /\ time_steps = 4
    /\ monitors # None
    /\ internal_monitors # None
    /\ Len(monitors[1]) = 2
    /\ monitors[1][1].form = "int"
    /\ monitors[1][1].n = 3
    /\ internal_monitors[1][1].indices = <<0, 3>>
    /\ monitors[1][2].form = "plain"
    /\ internal_monitors[1][2].indices = <<0, 1, 2, 3>>

(***************************************************************************)
(* C30: the frequency of a harmonic problem is never negative: the         *)
(* constructor and the setter fail with ValueError for a negative          *)
(* frequency, and a rejected assignment leaves the stored frequency as it  *)
(* was.                                                                    *)
(***************************************************************************)
C30_FrequencyNonNegative ==
    /\ frequency # None => frequency[1] >= 0
    /\ (frequency_arg # None /\ frequency_arg[1] < 0) =>
          /\ frequency_error = "ValueError"
          /\ frequency = frequency_before
    /\ (frequency_arg # None /\ frequency_arg[1] >= 0) =>
          /\ frequency_error = "none"
          /\ frequency = frequency_arg

\* a negative frequency assigned to a problem with a positive frequency
C30_Witness ==
    /\ frequency_before # None
    /\ frequency_arg = Some(0 - 1)
    /\ frequency_error = "ValueError"
    /\ frequency = Some(2)
    /\ frequency_calls = 3

====
